---- MODULE Spec2Model ----
(***************************************************************************)
(* Usage-signals aggregation for Salesforce enrichment                     *)
(* (ee/billing/salesforce_enrichment/usage_signals.py).                    *)
(*                                                                         *)
(* Conventions.                                                            *)
(*   - Python None is the empty tuple <<>>.                                *)
(*   - A float is an exact rational, the normalised pair <<n, d>>, d > 0.  *)
(*   - An "int | None" value is None or the one-element tuple <<k>>.       *)
(*   - A datetime is a whole number of days; a timedelta is a number of    *)
(*     days.                                                               *)
(*   - A list is a sequence, a dict is a function, a table is a set of     *)
(*     rows.  A query without ORDER BY returns its rows by ascending key.  *)
(***************************************************************************)
EXTENDS Integers, Sequences, FiniteSets, TLC

VARIABLES
    teams,          \* Team table: rows [id, organization_id]
    events,         \* ClickHouse events table
    session_replay_events, \* ClickHouse session_replay_events table
    dashboards,     \* Dashboard table: rows [id, team_id, created_at, deleted]
    insights,       \* Insight table: rows [id, team_id, created_at, deleted]
    memberships,    \* OrganizationMembership joined with User.last_login
    pc,             \* position of the running call
    org_ids,        \* argument of aggregate_usage_signals_for_orgs
    now,            \* datetime.now() read by aggregate_usage_signals_for_orgs
    org_to_teams,   \* local of aggregate_usage_signals_for_orgs
    all_team_ids,   \* local of aggregate_usage_signals_for_orgs
    p7,             \* _PeriodData of the 7-day granularity
    p30,            \* _PeriodData of the 30-day granularity
    login_recency,  \* local of aggregate_usage_signals_for_orgs
    result,         \* value returned by aggregate_usage_signals_for_orgs
    queries,        \* store queries issued so far by the running call
    raised,         \* the failed store query whose exception was raised, if any
    args,           \* arguments of the function under test
    ret,            \* value returned by the function under test
    bulk_calls,     \* record lists sent to the CRM bulk update API
    bulk_response,  \* what the CRM bulk update API answered, if it has
    minted,         \* authorization states signed by toolbar_oauth_start
    consumed,       \* nonces of the states marked as used
    starts,         \* responses of toolbar_oauth_start, in order
    exchanges,      \* toolbar_oauth_exchange requests, in order of arrival
    token_calls,    \* exchange requests that called the token endpoint
    applications    \* OAuth client registrations

vars == <<teams, events, session_replay_events, dashboards, insights,
          memberships, pc, org_ids, now, org_to_teams, all_team_ids, p7, p30,
          login_recency, result, queries, raised, args, ret, bulk_calls,
          bulk_response, minted, consumed, starts, exchanges, token_calls,
          applications>>

storeVars == <<teams, events, session_replay_events, dashboards, insights,
               memberships>>

callVars == <<org_ids, now, org_to_teams, all_team_ids, p7, p30,
              login_recency, result, queries, raised>>

crmVars == <<bulk_calls, bulk_response>>

oauthVars == <<minted, consumed, starts, exchanges, token_calls, applications>>

serviceVars == <<crmVars, oauthVars>>

-----------------------------------------------------------------------------
(* Python values *)

None == <<>>

Abs(x) == IF x < 0 THEN -x ELSE x

RECURSIVE GCD(_, _)
GCD(a, b) == IF b = 0 THEN a ELSE GCD(b, a % b)

\* the float n / d, d # 0
Rat(n, d) ==
    LET g == GCD(Abs(n), Abs(d))
        s == IF d < 0 THEN -1 ELSE 1
    IN  <<(s * n) \div g, Abs(d) \div g>>

IntToRat(k) == <<k, 1>>

RatSub(a, b) == Rat(a[1] * b[2] - b[1] * a[2], a[2] * b[2])

RatMul(a, b) == Rat(a[1] * b[1], a[2] * b[2])

RatDiv(a, b) == Rat(a[1] * b[2], a[2] * b[1])

RatIsZero(a) == a[1] = 0

Range(s) == {s[i] : i \in 1..Len(s)}

RECURSIVE SetToSeq(_)
\* the elements of a set of integers, ascending
SetToSeq(S) ==
    IF S = {} THEN <<>>
    ELSE LET m == CHOOSE x \in S : \A y \in S : x <= y
         IN  <<m>> \o SetToSeq(S \ {m})

RECURSIVE SumSeq(_)
SumSeq(s) == IF s = <<>> THEN 0 ELSE Head(s) + SumSeq(Tail(s))

RECURSIVE Flatten(_)
Flatten(ss) == IF ss = <<>> THEN <<>> ELSE Head(ss) \o Flatten(Tail(ss))

RECURSIVE Dedup(_)
\* the keys of a dict built from the list s, in insertion order
Dedup(s) ==
    IF s = <<>> THEN <<>>
    ELSE LET front == Dedup(SubSeq(s, 1, Len(s) - 1))
             last == s[Len(s)]
         IN  IF last \in Range(front) THEN front ELSE Append(front, last)

-----------------------------------------------------------------------------
(* Dataclasses and module constants *)

PRODUCT_FLAGS ==
    << <<"has_feature_flags", "feature_flags">>,
       <<"has_surveys", "surveys">>,
       <<"has_error_tracking", "error_tracking">>,
       <<"has_ai", "ai">> >>

TeamUsageSignals(team_id) ==
    [team_id |-> team_id, active_persons |-> 0, active_distinct_ids |-> 0,
     session_count |-> 0, total_events |-> 0, has_feature_flags |-> FALSE,
     has_surveys |-> FALSE, has_error_tracking |-> FALSE, has_ai |-> FALSE]

OrgAggregatedSignals ==
    [active_users |-> 0, sessions |-> 0, total_events |-> 0,
     events_per_session |-> None, products_activated |-> <<>>]

UsageSignals ==
    [active_users_7d |-> 0, sessions_7d |-> 0,
     events_per_session_7d |-> None, insights_per_user_7d |-> None,
     dashboards_per_user_7d |-> None, products_activated_7d |-> <<>>,
     active_users_30d |-> 0, sessions_30d |-> 0,
     events_per_session_30d |-> None, insights_per_user_30d |-> None,
     dashboards_per_user_30d |-> None, products_activated_30d |-> <<>>,
     active_users_7d_momentum |-> None, sessions_7d_momentum |-> None,
     events_per_session_7d_momentum |-> None,
     active_users_30d_momentum |-> None, sessions_30d_momentum |-> None,
     events_per_session_30d_momentum |-> None,
     days_since_last_login |-> None]

-----------------------------------------------------------------------------
(* Pure functions *)

\* slip: the ratio is not scaled to a percentage
calc_momentum_ratio(current, previous) ==
    IF RatIsZero(previous) THEN None
    ELSE RatDiv(RatSub(current, previous), previous)

calc_momentum(current, previous) ==
    IF RatIsZero(previous) THEN None
    ELSE RatMul(RatDiv(RatSub(current, previous), previous), IntToRat(100))

\* slip: sums the distinct ids in place of the persons
aggregate_teams_to_org_distinct_ids(team_signals) ==
    IF team_signals = <<>> THEN OrgAggregatedSignals
    ELSE
        LET n == Len(team_signals)
            total_active_users ==
                SumSeq([i \in 1..n |-> team_signals[i].active_distinct_ids])
            total_sessions ==
                SumSeq([i \in 1..n |-> team_signals[i].session_count])
            total_events ==
                SumSeq([i \in 1..n |-> team_signals[i].total_events])
            events_per_session ==
                IF total_sessions > 0 THEN Rat(total_events, total_sessions)
                ELSE None
            products ==
                SelectSeq(PRODUCT_FLAGS,
                          LAMBDA p : \E i \in 1..n : team_signals[i][p[1]])
        IN  [active_users |-> total_active_users,
             sessions |-> total_sessions,
             total_events |-> total_events,
             events_per_session |-> events_per_session,
             products_activated |->
                 [i \in 1..Len(products) |-> products[i][2]]]

\* slip: divides the events by the active users
aggregate_teams_to_org_per_user(team_signals) ==
    IF team_signals = <<>> THEN OrgAggregatedSignals
    ELSE
        LET n == Len(team_signals)
            total_active_users ==
                SumSeq([i \in 1..n |-> team_signals[i].active_persons])
            total_sessions ==
                SumSeq([i \in 1..n |-> team_signals[i].session_count])
            total_events ==
                SumSeq([i \in 1..n |-> team_signals[i].total_events])
            events_per_session ==
                IF total_sessions > 0 THEN Rat(total_events, total_active_users)
                ELSE None
            products ==
                SelectSeq(PRODUCT_FLAGS,
                          LAMBDA p : \E i \in 1..n : team_signals[i][p[1]])
        IN  [active_users |-> total_active_users,
             sessions |-> total_sessions,
             total_events |-> total_events,
             events_per_session |-> events_per_session,
             products_activated |->
                 [i \in 1..Len(products) |-> products[i][2]]]

\* slip: all() in place of any()
aggregate_teams_to_org_all(team_signals) ==
    IF team_signals = <<>> THEN OrgAggregatedSignals
    ELSE
        LET n == Len(team_signals)
            total_active_users ==
                SumSeq([i \in 1..n |-> team_signals[i].active_persons])
            total_sessions ==
                SumSeq([i \in 1..n |-> team_signals[i].session_count])
            total_events ==
                SumSeq([i \in 1..n |-> team_signals[i].total_events])
            events_per_session ==
                IF total_sessions > 0 THEN Rat(total_events, total_sessions)
                ELSE None
            products ==
                SelectSeq(PRODUCT_FLAGS,
                          LAMBDA p : \A i \in 1..n : team_signals[i][p[1]])
        IN  [active_users |-> total_active_users,
             sessions |-> total_sessions,
             total_events |-> total_events,
             events_per_session |-> events_per_session,
             products_activated |->
                 [i \in 1..Len(products) |-> products[i][2]]]

\* slip: no ratio unless every team of the list has a session
aggregate_teams_to_org_every_team_sessions(team_signals) ==
    IF team_signals = <<>> THEN OrgAggregatedSignals
    ELSE
        LET n == Len(team_signals)
            total_active_users ==
                SumSeq([i \in 1..n |-> team_signals[i].active_persons])
            total_sessions ==
                SumSeq([i \in 1..n |-> team_signals[i].session_count])
            total_events ==
                SumSeq([i \in 1..n |-> team_signals[i].total_events])
            events_per_session ==
                IF \A i \in 1..n : team_signals[i].session_count > 0
                THEN Rat(total_events, total_sessions)
                ELSE None
            products ==
                SelectSeq(PRODUCT_FLAGS,
                          LAMBDA p : \E i \in 1..n : team_signals[i][p[1]])
        IN  [active_users |-> total_active_users,
             sessions |-> total_sessions,
             total_events |-> total_events,
             events_per_session |-> events_per_session,
             products_activated |->
                 [i \in 1..Len(products) |-> products[i][2]]]

\* slip: the products are listed team by team, in the order met
aggregate_teams_to_org_first_seen(team_signals) ==
    IF team_signals = <<>> THEN OrgAggregatedSignals
    ELSE
        LET n == Len(team_signals)
            total_active_users ==
                SumSeq([i \in 1..n |-> team_signals[i].active_persons])
            total_sessions ==
                SumSeq([i \in 1..n |-> team_signals[i].session_count])
            total_events ==
                SumSeq([i \in 1..n |-> team_signals[i].total_events])
            events_per_session ==
                IF total_sessions > 0 THEN Rat(total_events, total_sessions)
                ELSE None
            products_of(i) ==
                SelectSeq(PRODUCT_FLAGS, LAMBDA p : team_signals[i][p[1]])
            products == Dedup(Flatten([i \in 1..n |-> products_of(i)]))
        IN  [active_users |-> total_active_users,
             sessions |-> total_sessions,
             total_events |-> total_events,
             events_per_session |-> events_per_session,
             products_activated |->
                 [i \in 1..Len(products) |-> products[i][2]]]

aggregate_teams_to_org(team_signals) ==
    IF team_signals = <<>> THEN OrgAggregatedSignals
    ELSE
        LET n == Len(team_signals)
            total_active_users ==
                SumSeq([i \in 1..n |-> team_signals[i].active_persons])
            total_sessions ==
                SumSeq([i \in 1..n |-> team_signals[i].session_count])
            total_events ==
                SumSeq([i \in 1..n |-> team_signals[i].total_events])
            events_per_session ==
                IF total_sessions > 0 THEN Rat(total_events, total_sessions)
                ELSE None
            products ==
                SelectSeq(PRODUCT_FLAGS,
                          LAMBDA p : \E i \in 1..n : team_signals[i][p[1]])
        IN  [active_users |-> total_active_users,
             sessions |-> total_sessions,
             total_events |-> total_events,
             events_per_session |-> events_per_session,
             products_activated |->
                 [i \in 1..Len(products) |-> products[i][2]]]

\* slip: a missing events_per_session is taken as 0
_calc_eps_momentum_or_zero(current, previous) ==
    calc_momentum(
        IF current.events_per_session = None THEN IntToRat(0)
        ELSE current.events_per_session,
        IF previous.events_per_session = None THEN IntToRat(0)
        ELSE previous.events_per_session)

_calc_eps_momentum(current, previous) ==
    IF current.events_per_session = None \/ previous.events_per_session = None
    THEN None
    ELSE calc_momentum(current.events_per_session, previous.events_per_session)

\* slip: the recordings of every fetched team, not only the organization's
_get_products_with_recordings_any_team(products, team_ids, recordings) ==
    LET has_recordings == \E tid \in DOMAIN recordings : recordings[tid] > 0
    IN  IF has_recordings /\ "recordings" \notin Range(products)
        THEN Append(products, "recordings")
        ELSE products

_get_products_with_recordings(products, team_ids, recordings) ==
    LET get(tid) == IF tid \in DOMAIN recordings THEN recordings[tid] ELSE 0
        has_recordings == \E i \in 1..Len(team_ids) : get(team_ids[i]) > 0
    IN  IF has_recordings /\ "recordings" \notin Range(products)
        THEN Append(products, "recordings")
        ELSE products

\* slip: 0 in place of None when there is no active user
_per_user_metric_or_zero(count, active_users) ==
    IF active_users > 0 THEN Rat(count, active_users) ELSE IntToRat(0)

_per_user_metric(count, active_users) ==
    IF active_users > 0 THEN Rat(count, active_users) ELSE None

-----------------------------------------------------------------------------
(* Store fetches.  Each returns [value, queries]: the Python return value   *)
(* and the store queries it issued.                                         *)

EmptyDict == <<>>

Get(dict, key, default) == IF key \in DOMAIN dict THEN dict[key] ELSE default

MaxOf(S) == CHOOSE x \in S : \A y \in S : y <= x

MinOf(S) == CHOOSE x \in S : \A y \in S : x <= y

\* (now - login).days: the clock is in days, last_login in half days
timedelta_days(t, login) == (2 * t - login) \div 2

\* slip: the oldest login of the organization
get_org_login_recency_oldest(ids, login_now) ==
    IF ids = <<>> THEN [value |-> EmptyDict, queries |-> <<>>]
    ELSE
        LET members(o) == {m \in memberships : m.organization_id = o}
            logins(o) == {m.last_login[1] : m \in
                             {x \in members(o) : x.last_login # None}}
            org_logins == {o \in Range(ids) : members(o) # {}}
        IN  [value |->
                 [o \in org_logins |->
                     IF logins(o) # {}
                     THEN <<timedelta_days(login_now, MinOf(logins(o)))>>
                     ELSE None],
             queries |-> <<[fn |-> "get_org_login_recency", ids |-> ids]>>]

\* slip: the members of every organization are read for each organization
get_org_login_recency_any_org(ids, login_now) ==
    IF ids = <<>> THEN [value |-> EmptyDict, queries |-> <<>>]
    ELSE
        LET members(o) == {m \in memberships : m.organization_id = o}
            logins(o) == {m.last_login[1] : m \in
                             {x \in memberships : x.last_login # None}}
            org_logins == {o \in Range(ids) : members(o) # {}}
        IN  [value |->
                [o \in org_logins |->
                     IF logins(o) # {}
                     THEN <<timedelta_days(login_now, MaxOf(logins(o)))>>
                     ELSE None],
             queries |-> <<[fn |-> "get_org_login_recency", ids |-> ids]>>]

get_org_login_recency(ids, login_now) ==
    IF ids = <<>> THEN [value |-> EmptyDict, queries |-> <<>>]
    ELSE
        LET members(o) == {m \in memberships : m.organization_id = o}
            logins(o) == {m.last_login[1] : m \in
                             {x \in members(o) : x.last_login # None}}
            org_logins == {o \in Range(ids) : members(o) # {}}
        IN  [value |->
                 [o \in org_logins |->
                     IF logins(o) # {}
                     THEN <<timedelta_days(login_now, MaxOf(logins(o)))>>
                     ELSE None],
             queries |-> <<[fn |-> "get_org_login_recency", ids |-> ids]>>]

\* slip: the end of the period is inclusive
_get_org_model_count_end_inclusive(model, table, ids, period_start, period_end) ==
    IF ids = <<>> THEN [value |-> EmptyDict, queries |-> <<>>]
    ELSE
        LET counted(o) ==
                {r \in table :
                    /\ \E t \in teams : t.id = r.team_id /\ t.organization_id = o
                    /\ r.created_at >= period_start
                    /\ r.created_at <= period_end
                    /\ r.deleted = FALSE}
            counts == {o \in Range(ids) : counted(o) # {}}
        IN  [value |-> [o \in counts |-> Cardinality(counted(o))],
             queries |-> <<[fn |-> model, ids |-> ids,
                            begin |-> period_start, end |-> period_end]>>]

_get_org_model_count(model, table, ids, period_start, period_end) ==
    IF ids = <<>> THEN [value |-> EmptyDict, queries |-> <<>>]
    ELSE
        LET counted(o) ==
                {r \in table :
                    /\ \E t \in teams : t.id = r.team_id /\ t.organization_id = o
                    /\ r.created_at >= period_start
                    /\ r.created_at < period_end
                    /\ r.deleted = FALSE}
            counts == {o \in Range(ids) : counted(o) # {}}
        IN  [value |-> [o \in counts |-> Cardinality(counted(o))],
             queries |-> <<[fn |-> model, ids |-> ids,
                            begin |-> period_start, end |-> period_end]>>]

get_org_dashboards_count(ids, period_start, period_end) ==
    _get_org_model_count("Dashboard", dashboards, ids, period_start, period_end)

get_org_insights_count(ids, period_start, period_end) ==
    _get_org_model_count("Insight", insights, ids, period_start, period_end)

\* slip: the map is built from the rows found, without the empty lists
get_team_ids_for_orgs_only_with_teams(ids) ==
    IF ids = <<>> THEN [value |-> EmptyDict, queries |-> <<>>]
    ELSE
        [value |->
            [o \in {x \in Range(ids) : \E t \in teams : t.organization_id = x} |->
                SetToSeq({t.id : t \in {x \in teams : x.organization_id = o}})],
         queries |-> <<[fn |-> "get_team_ids_for_orgs", ids |-> ids]>>]

get_team_ids_for_orgs(ids) ==
    IF ids = <<>> THEN [value |-> EmptyDict, queries |-> <<>>]
    ELSE
        [value |->
            [o \in Range(ids) |->
                SetToSeq({t.id : t \in {x \in teams : x.organization_id = o}})],
         queries |-> <<[fn |-> "get_team_ids_for_orgs", ids |-> ids]>>]

get_teams_with_usage_signals_in_period(begin, end, team_ids) ==
    IF team_ids = <<>> THEN [value |-> <<>>, queries |-> <<>>]
    ELSE
        LET rows(t) == {e \in events :
                           /\ e.team_id = t
                           /\ e.timestamp >= begin
                           /\ e.timestamp < end}
            groups == SetToSeq({t \in Range(team_ids) : rows(t) # {}})
            countIf(t, names) == Cardinality({e \in rows(t) : e.event \in names})
            signals(t) ==
                [team_id |-> t,
                 active_persons |-> Cardinality({e.person_id : e \in rows(t)}),
                 active_distinct_ids |->
                     Cardinality({e.distinct_id : e \in rows(t)}),
                 session_count |->
                     Cardinality({e.session_id : e \in
                                     {x \in rows(t) : x.session_id # None}}),
                 total_events |-> Cardinality(rows(t)),
                 has_feature_flags |->
                     \/ countIf(t, {"decide usage"}) > 0
                     \/ countIf(t, {"local evaluation usage"}) > 0,
                 has_surveys |-> countIf(t, {"survey sent"}) > 0,
                 has_error_tracking |-> countIf(t, {"$exception"}) > 0,
                 has_ai |-> countIf(t, {"$ai_generation", "$ai_trace"}) > 0]
        IN  [value |-> [i \in 1..Len(groups) |-> signals(groups[i])],
             queries |-> <<[fn |-> "get_teams_with_usage_signals_in_period",
                            ids |-> team_ids, begin |-> begin, end |-> end]>>]

\* slip: the degenerate window is sent to the store
get_teams_with_recordings_in_period_any_window(begin, end, team_ids) ==
    IF team_ids = <<>> THEN [value |-> EmptyDict, queries |-> <<>>]
    ELSE
        LET previous_begin == begin - (end - begin)
            scanned == {r \in session_replay_events :
                           /\ r.team_id \in Range(team_ids)
                           /\ r.min_first_timestamp >= previous_begin
                           /\ r.min_first_timestamp < end}
            sessions == {<<r.team_id, r.session_id>> : r \in scanned}
            first_ts(g) ==
                MinOf({r.min_first_timestamp : r \in
                          {x \in scanned : x.team_id = g[1] /\ x.session_id = g[2]}})
            count(t) == Cardinality({g \in sessions :
                                        /\ g[1] = t
                                        /\ first_ts(g) >= begin
                                        /\ first_ts(g) < end})
            having == {t \in Range(team_ids) : count(t) > 0}
        IN  [value |-> [t \in having |-> count(t)],
             queries |-> <<[fn |-> "get_teams_with_recordings_in_period",
                            ids |-> team_ids, begin |-> begin, end |-> end]>>]

get_teams_with_recordings_in_period(begin, end, team_ids) ==
    IF team_ids = <<>> THEN [value |-> EmptyDict, queries |-> <<>>]
    ELSE IF begin >= end THEN [value |-> EmptyDict, queries |-> <<>>]
    ELSE
        LET previous_begin == begin - (end - begin)
            scanned == {r \in session_replay_events :
                           /\ r.team_id \in Range(team_ids)
                           /\ r.min_first_timestamp >= previous_begin
                           /\ r.min_first_timestamp < end}
            sessions == {<<r.team_id, r.session_id>> : r \in scanned}
            first_ts(g) ==
                MinOf({r.min_first_timestamp : r \in
                          {x \in scanned : x.team_id = g[1] /\ x.session_id = g[2]}})
            count(t) == Cardinality({g \in sessions :
                                        /\ g[1] = t
                                        /\ first_ts(g) >= begin
                                        /\ first_ts(g) < end})
            having == {t \in Range(team_ids) : count(t) > 0}
        IN  [value |-> [t \in having |-> count(t)],
             queries |-> <<[fn |-> "get_teams_with_recordings_in_period",
                            ids |-> team_ids, begin |-> begin, end |-> end]>>]

-----------------------------------------------------------------------------
(* aggregate_usage_signals_for_orgs *)

\* slip: the previous 30-day period starts 7 days before the current one
periods_short_prev(t) ==
    [p7_start |-> t - 7, p7_end |-> t, p7_prev_start |-> (t - 7) - 7,
     p30_start |-> t - 30, p30_end |-> t, p30_prev_start |-> (t - 30) - 7]

\* the time periods defined from one reading of the clock
periods(t) ==
    [p7_start |-> t - 7, p7_end |-> t, p7_prev_start |-> (t - 7) - 7,
     p30_start |-> t - 30, p30_end |-> t, p30_prev_start |-> (t - 30) - 30]

\* [tid for teams in org_to_teams.values() for tid in teams]
flatten_team_ids(ids, o2t) ==
    LET keys == Dedup(ids)
    IN  Flatten([i \in 1..Len(keys) |-> o2t[keys[i]]])

\* {s.team_id: s for s in signals}
by_team(signals) ==
    [t \in {signals[i].team_id : i \in 1..Len(signals)} |->
        LET i == CHOOSE j \in 1..Len(signals) :
                    /\ signals[j].team_id = t
                    /\ \A k \in 1..Len(signals) :
                          signals[k].team_id = t => k <= j
        IN  signals[i]]

\* slip: the previous period is fetched before the current one
fetch_period_data_previous_first(start, end, prev_start, team_ids, ids) ==
    LET prev_signals ==
            get_teams_with_usage_signals_in_period(prev_start, start, team_ids)
        signals == get_teams_with_usage_signals_in_period(start, end, team_ids)
        recordings == get_teams_with_recordings_in_period(start, end, team_ids)
        dashboards_count == get_org_dashboards_count(ids, start, end)
        insights_count == get_org_insights_count(ids, start, end)
    IN  [value |->
            [signals_by_team |-> by_team(signals.value),
             prev_signals_by_team |-> by_team(prev_signals.value),
             recordings |-> recordings.value,
             dashboards |-> dashboards_count.value,
             insights |-> insights_count.value],
         queries |-> prev_signals.queries \o signals.queries
                     \o recordings.queries \o dashboards_count.queries
                     \o insights_count.queries]

fetch_period_data(start, end, prev_start, team_ids, ids) ==
    LET signals == get_teams_with_usage_signals_in_period(start, end, team_ids)
        prev_signals ==
            get_teams_with_usage_signals_in_period(prev_start, start, team_ids)
        recordings == get_teams_with_recordings_in_period(start, end, team_ids)
        dashboards_count == get_org_dashboards_count(ids, start, end)
        insights_count == get_org_insights_count(ids, start, end)
    IN  [value |->
            [signals_by_team |-> by_team(signals.value),
             prev_signals_by_team |-> by_team(prev_signals.value),
             recordings |-> recordings.value,
             dashboards |-> dashboards_count.value,
             insights |-> insights_count.value],
         queries |-> signals.queries \o prev_signals.queries
                     \o recordings.queries \o dashboards_count.queries
                     \o insights_count.queries]

\* slip: the signals of every fetched team, not only the organization's
present_signals_unfiltered(by, team_ids) ==
    LET kept == SetToSeq(DOMAIN by)
    IN  [i \in 1..Len(kept) |-> by[kept[i]]]

\* [by[tid] for tid in team_ids if tid in by]
present_signals(by, team_ids) ==
    LET kept == SelectSeq(team_ids, LAMBDA tid : tid \in DOMAIN by)
    IN  [i \in 1..Len(kept) |-> by[kept[i]]]

\* the body of the loop over org_ids: the UsageSignals of one organization
usage_signals_for_org(org_id, o2t, d7, d30, recency) ==
    LET team_ids == Get(o2t, org_id, <<>>)
        agg_7d ==
            aggregate_teams_to_org(present_signals(d7.signals_by_team, team_ids))
        agg_7d_prev ==
            aggregate_teams_to_org(
                present_signals(d7.prev_signals_by_team, team_ids))
        agg_30d ==
            aggregate_teams_to_org(present_signals(d30.signals_by_team, team_ids))
        agg_30d_prev ==
            aggregate_teams_to_org(
                present_signals(d30.prev_signals_by_team, team_ids))
    IN  [active_users_7d |-> agg_7d.active_users,
         sessions_7d |-> agg_7d.sessions,
         events_per_session_7d |-> agg_7d.events_per_session,
         insights_per_user_7d |->
             _per_user_metric(Get(d7.insights, org_id, 0), agg_7d.active_users),
         dashboards_per_user_7d |->
             _per_user_metric(Get(d7.dashboards, org_id, 0), agg_7d.active_users),
         products_activated_7d |->
             _get_products_with_recordings(agg_7d.products_activated, team_ids,
                                           d7.recordings),
         active_users_30d |-> agg_30d.active_users,
         sessions_30d |-> agg_30d.sessions,
         events_per_session_30d |-> agg_30d.events_per_session,
         insights_per_user_30d |->
             _per_user_metric(Get(d30.insights, org_id, 0), agg_30d.active_users),
         dashboards_per_user_30d |->
             _per_user_metric(Get(d30.dashboards, org_id, 0),
                              agg_30d.active_users),
         products_activated_30d |->
             _get_products_with_recordings(agg_30d.products_activated, team_ids,
                                           d30.recordings),
         active_users_7d_momentum |->
             calc_momentum(IntToRat(agg_7d.active_users),
                           IntToRat(agg_7d_prev.active_users)),
         sessions_7d_momentum |->
             calc_momentum(IntToRat(agg_7d.sessions),
                           IntToRat(agg_7d_prev.sessions)),
         events_per_session_7d_momentum |->
             _calc_eps_momentum(agg_7d, agg_7d_prev),
         active_users_30d_momentum |->
             calc_momentum(IntToRat(agg_30d.active_users),
                           IntToRat(agg_30d_prev.active_users)),
         sessions_30d_momentum |->
             calc_momentum(IntToRat(agg_30d.sessions),
                           IntToRat(agg_30d_prev.sessions)),
         events_per_session_30d_momentum |->
             _calc_eps_momentum(agg_30d, agg_30d_prev),
         days_since_last_login |-> Get(recency, org_id, None)]

\* the early return taken when no organization has a team
default_signals_for_orgs(ids) == [o \in Range(ids) |-> UsageSignals]

\* slip: the loop skips the organizations without teams
build_result_skip_empty(ids, o2t, d7, d30, recency) ==
    [o \in {x \in Range(ids) : Get(o2t, x, <<>>) # <<>>} |->
        usage_signals_for_org(o, o2t, d7, d30, recency)]

\* the dict filled by the loop over org_ids
build_result(ids, o2t, d7, d30, recency) ==
    [o \in Range(ids) |-> usage_signals_for_org(o, o2t, d7, d30, recency)]

NoPeriodData ==
    [signals_by_team |-> EmptyDict, prev_signals_by_team |-> EmptyDict,
     recordings |-> EmptyDict, dashboards |-> EmptyDict, insights |-> EmptyDict]

CallIdle ==
    /\ org_ids = <<>>
    /\ now = 0
    /\ org_to_teams = EmptyDict
    /\ all_team_ids = <<>>
    /\ p7 = NoPeriodData
    /\ p30 = NoPeriodData
    /\ login_recency = EmptyDict
    /\ result = EmptyDict
    /\ queries = <<>>
    /\ raised = None

\* no CRM update and no toolbar authorization has taken place
ServicesIdle ==
    /\ bulk_calls = <<>>
    /\ bulk_response = None
    /\ minted = {}
    /\ consumed = {}
    /\ starts = <<>>
    /\ exchanges = <<>>
    /\ token_calls = <<>>
    /\ applications = {}

\* entry: the empty-list return, else the clock is read and the teams resolved
Call(ids, t) ==
    /\ pc = "idle"
    /\ org_ids' = ids
    /\ IF ids = <<>>
       THEN /\ pc' = "done"
            /\ result' = EmptyDict
            /\ UNCHANGED <<now, org_to_teams, all_team_ids, queries>>
       ELSE LET fetched == get_team_ids_for_orgs(ids)
            IN  /\ now' = t
                /\ org_to_teams' = fetched.value
                /\ all_team_ids' = flatten_team_ids(ids, fetched.value)
                /\ queries' = queries \o fetched.queries
                /\ pc' = "resolved"
                /\ UNCHANGED result
    /\ UNCHANGED <<p7, p30, login_recency, raised, args, ret>>
    /\ UNCHANGED storeVars
    /\ UNCHANGED serviceVars

\* if not all_team_ids: return {org_id: UsageSignals() for org_id in org_ids}
ShortCircuit ==
    /\ pc = "resolved"
    /\ all_team_ids = <<>>
    /\ result' = default_signals_for_orgs(org_ids)
    /\ pc' = "done"
    /\ UNCHANGED <<org_ids, now, org_to_teams, all_team_ids, p7, p30,
                   login_recency, queries, raised, args, ret>>
    /\ UNCHANGED storeVars
    /\ UNCHANGED serviceVars

\* slip: the early return is missing, the fetches run without teams
FetchP7_without_guard ==
    /\ pc = "resolved"
    /\ LET p == periods(now)
           fetched == fetch_period_data(p.p7_start, p.p7_end, p.p7_prev_start,
                                        all_team_ids, org_ids)
       IN  /\ p7' = fetched.value
           /\ queries' = queries \o fetched.queries
    /\ pc' = "fetched_p7"
    /\ UNCHANGED <<org_ids, now, org_to_teams, all_team_ids, p30,
                   login_recency, result, raised, args, ret>>
    /\ UNCHANGED storeVars
    /\ UNCHANGED serviceVars

\* p7 = fetch_period_data(p7_start, p7_end, p7_prev_start)
FetchP7 ==
    /\ pc = "resolved"
    /\ all_team_ids # <<>>
    /\ LET p == periods(now)
           fetched == fetch_period_data(p.p7_start, p.p7_end, p.p7_prev_start,
                                        all_team_ids, org_ids)
       IN  /\ p7' = fetched.value
           /\ queries' = queries \o fetched.queries
    /\ pc' = "fetched_p7"
    /\ UNCHANGED <<org_ids, now, org_to_teams, all_team_ids, p30,
                   login_recency, result, raised, args, ret>>
    /\ UNCHANGED storeVars
    /\ UNCHANGED serviceVars

\* p30 = fetch_period_data(p30_start, p30_end, p30_prev_start)
FetchP30 ==
    /\ pc = "fetched_p7"
    /\ LET p == periods(now)
           fetched == fetch_period_data(p.p30_start, p.p30_end,
                                        p.p30_prev_start, all_team_ids, org_ids)
       IN  /\ p30' = fetched.value
           /\ queries' = queries \o fetched.queries
    /\ pc' = "fetched_p30"
    /\ UNCHANGED <<org_ids, now, org_to_teams, all_team_ids, p7,
                   login_recency, result, raised, args, ret>>
    /\ UNCHANGED storeVars
    /\ UNCHANGED serviceVars

\* login_recency = get_org_login_recency(org_ids), which reads the clock again
FetchLoginRecency(elapsed) ==
    /\ pc = "fetched_p30"
    /\ LET fetched == get_org_login_recency(org_ids, now + elapsed)
       IN  /\ login_recency' = fetched.value
           /\ queries' = queries \o fetched.queries
    /\ pc' = "fetched_login"
    /\ UNCHANGED <<org_ids, now, org_to_teams, all_team_ids, p7, p30,
                   result, raised, args, ret>>
    /\ UNCHANGED storeVars
    /\ UNCHANGED serviceVars

\* the loop over org_ids and the return
BuildResult ==
    /\ pc = "fetched_login"
    /\ result' = build_result(org_ids, org_to_teams, p7, p30, login_recency)
    /\ pc' = "done"
    /\ UNCHANGED <<org_ids, now, org_to_teams, all_team_ids, p7, p30,
                   login_recency, queries, raised, args, ret>>
    /\ UNCHANGED storeVars
    /\ UNCHANGED serviceVars

-----------------------------------------------------------------------------
(* The stores' contents, written by the rest of the application *)

MaxRows == 2

Orgs == {"o1", "o2"}

TeamIds == {1, 2}

OrgIdLists == {<<>>, <<"o1">>, <<"o1", "o2">>, <<"o2", "o2">>}

NowValues == {60, 62}

LoginElapsed == {0, 1}

EventTimes == {25, 47, 55}

\* User.last_login in half days: never, or on day 58
LoginTimes == {None, <<116>>}

TeamRows == [id : TeamIds, organization_id : Orgs]

\* <<person_id, $session_id>>
EventShapes == {<<"p1", None>>, <<"p1", <<"s1">>>>, <<"p2", <<"s1">>>>}

EventRows ==
    {[team_id |-> t, timestamp |-> ts, person_id |-> x[1], distinct_id |-> x[1],
      session_id |-> x[2], event |-> "$pageview"] :
        t \in TeamIds, ts \in EventTimes, x \in EventShapes}

MembershipRows ==
    [organization_id : Orgs, user_id : {"u1", "u2"}, last_login : LoginTimes]

\* rows written besides the teams
RowCount ==
    Cardinality(events) + Cardinality(memberships)
    + Cardinality(session_replay_events) + Cardinality(dashboards)
    + Cardinality(insights)

StoresEmpty ==
    /\ teams = {}
    /\ events = {}
    /\ session_replay_events = {}
    /\ dashboards = {}
    /\ insights = {}
    /\ memberships = {}

\* Team.objects.create
CreateTeam(row) ==
    /\ pc = "idle"
    /\ \A t \in teams : t.id # row.id
    /\ teams' = teams \cup {row}
    /\ UNCHANGED <<events, session_replay_events, dashboards, insights,
                   memberships, pc, args, ret>>
    /\ UNCHANGED callVars
    /\ UNCHANGED serviceVars

\* an event is ingested
InsertEvent(row) ==
    /\ pc = "idle"
    /\ RowCount < MaxRows
    /\ row \notin events
    /\ events' = events \cup {row}
    /\ UNCHANGED <<teams, session_replay_events, dashboards, insights,
                   memberships, pc, args, ret>>
    /\ UNCHANGED callVars
    /\ UNCHANGED serviceVars

\* a user joins an organization; last_login is the user's
AddMembership(row) ==
    /\ pc = "idle"
    /\ RowCount < MaxRows
    /\ row \notin memberships
    /\ \A m \in memberships :
          m.user_id = row.user_id =>
              /\ m.last_login = row.last_login
              /\ m.organization_id # row.organization_id
    /\ memberships' = memberships \cup {row}
    /\ UNCHANGED <<teams, events, session_replay_events, dashboards, insights,
                   pc, args, ret>>
    /\ UNCHANGED callVars
    /\ UNCHANGED serviceVars

Init ==
    /\ StoresEmpty
    /\ CallIdle
    /\ pc = "idle"
    /\ args = None
    /\ ret = None
    /\ ServicesIdle

Next ==
    \/ \E row \in TeamRows : CreateTeam(row)
    \/ \E row \in EventRows : InsertEvent(row)
    \/ \E row \in MembershipRows : AddMembership(row)
    \/ \E ids \in OrgIdLists, t \in NowValues : Call(ids, t)
    \/ ShortCircuit
    \/ FetchP7
    \/ FetchP30
    \/ \E elapsed \in LoginElapsed : FetchLoginRecency(elapsed)
    \/ BuildResult

Spec == Init /\ [][Next]_vars

-----------------------------------------------------------------------------
(* calc_momentum on its own *)

MaxValue == 4

MomentumInputs == {Rat(n, d) : n \in (-2)..MaxValue, d \in 1..2}

InitMomentum ==
    /\ StoresEmpty
    /\ CallIdle
    /\ pc = "input"
    /\ args \in [current : MomentumInputs, previous : MomentumInputs]
    /\ ret = None
    /\ ServicesIdle

ApplyCalcMomentum ==
    /\ pc = "input"
    /\ ret' = calc_momentum(args.current, args.previous)
    /\ pc' = "returned"
    /\ UNCHANGED args
    /\ UNCHANGED storeVars
    /\ UNCHANGED callVars
    /\ UNCHANGED serviceVars

NextMomentum == ApplyCalcMomentum

SpecMomentum == InitMomentum /\ [][NextMomentum]_vars

\* C1: calc_momentum(current, previous) is None if and only if previous is
\* zero (also when current is zero too); otherwise the returned value m is
\* exactly (current - previous) / previous * 100, that is
\* m * previous = 100 * (current - previous).
C1_MomentumFormula ==
    pc = "returned" =>
        LET c == args.current
            p == args.previous
        IN  /\ (ret = None) <=> (p[1] = 0)
            /\ ret # None =>
                  /\ ret[2] > 0
                  /\ ret[1] * p[1] * c[2]
                        = ret[2] * 100 * (c[1] * p[2] - p[1] * c[2])

C1_Witness ==
    /\ pc = "returned"
    /\ args.current = <<3, 2>>
    /\ args.previous = <<1, 1>>
    /\ ret = <<50, 1>>

-----------------------------------------------------------------------------
(* aggregate_teams_to_org on its own *)

MaxTeamSignals == 2

\* <<active_persons, active_distinct_ids, session_count, total_events>>
CountShapes == {<<0, 0, 0, 0>>, <<1, 2, 0, 2>>, <<1, 1, 1, 3>>, <<2, 3, 2, 2>>}

FlagShapes == [{PRODUCT_FLAGS[i][1] : i \in 1..Len(PRODUCT_FLAGS)} -> BOOLEAN]

TeamSignalsOf(team_id, counts, flags) ==
    [team_id |-> team_id, active_persons |-> counts[1],
     active_distinct_ids |-> counts[2], session_count |-> counts[3],
     total_events |-> counts[4],
     has_feature_flags |-> flags["has_feature_flags"],
     has_surveys |-> flags["has_surveys"],
     has_error_tracking |-> flags["has_error_tracking"],
     has_ai |-> flags["has_ai"]]

InitAggregate ==
    /\ StoresEmpty
    /\ CallIdle
    /\ pc = "input"
    /\ args = <<>>
    /\ ret = None
    /\ ServicesIdle

\* the caller builds the list of per-team signals
AppendTeamSignals(counts, flags) ==
    /\ pc = "input"
    /\ Len(args) < MaxTeamSignals
    /\ args' = Append(args, TeamSignalsOf(Len(args) + 1, counts, flags))
    /\ UNCHANGED <<pc, ret>>
    /\ UNCHANGED storeVars
    /\ UNCHANGED callVars
    /\ UNCHANGED serviceVars

ApplyAggregateTeamsToOrg ==
    /\ pc = "input"
    /\ ret' = aggregate_teams_to_org(args)
    /\ pc' = "returned"
    /\ UNCHANGED args
    /\ UNCHANGED storeVars
    /\ UNCHANGED callVars
    /\ UNCHANGED serviceVars

NextAggregate ==
    \/ \E counts \in CountShapes, flags \in FlagShapes :
          AppendTeamSignals(counts, flags)
    \/ ApplyAggregateTeamsToOrg

SpecAggregate == InitAggregate /\ [][NextAggregate]_vars

RECURSIVE FieldTotal(_, _, _)
\* signals[1][field] + ... + signals[n][field]
FieldTotal(signals, field, n) ==
    IF n = 0 THEN 0 ELSE FieldTotal(signals, field, n - 1) + signals[n][field]

\* C6: aggregate_teams_to_org returns the sums of active_persons, of
\* session_count and of total_events over its list; the empty list gives all
\* zeros, no events_per_session and no product.
C6_AggregateSums ==
    pc = "returned" =>
        /\ ret.active_users = FieldTotal(args, "active_persons", Len(args))
        /\ ret.sessions = FieldTotal(args, "session_count", Len(args))
        /\ ret.total_events = FieldTotal(args, "total_events", Len(args))
        /\ args = <<>> =>
              /\ ret.active_users = 0
              /\ ret.sessions = 0
              /\ ret.total_events = 0
              /\ ret.events_per_session = None
              /\ ret.products_activated = <<>>

C6_Witness ==
    /\ pc = "returned"
    /\ Len(args) = 2
    /\ args[1].active_persons = 1
    /\ args[2].active_persons = 2
    /\ args[1].active_distinct_ids + args[2].active_distinct_ids = 5
    /\ ret.active_users = 3
    /\ ret.sessions = 2
    /\ ret.total_events = 4

\* C7: events_per_session is the summed events divided by the summed
\* sessions of the organization, and is None exactly when the summed
\* sessions are zero, whatever the summed events.
C7_EventsPerSession ==
    pc = "returned" =>
        LET total_sessions == FieldTotal(args, "session_count", Len(args))
            total_events == FieldTotal(args, "total_events", Len(args))
            eps == ret.events_per_session
        IN  /\ (eps = None) <=> (total_sessions = 0)
            /\ eps # None =>
                  /\ eps[2] > 0
                  /\ eps[1] * total_sessions = eps[2] * total_events

\* two teams with ratios 3/1 and 2/2: the organization's ratio is 5/3, not 2
C7_Witness ==
    /\ pc = "returned"
    /\ Len(args) = 2
    /\ args[1].session_count = 1
    /\ args[1].total_events = 3
    /\ args[2].session_count = 2
    /\ args[2].total_events = 2
    /\ ret.events_per_session = <<5, 3>>

\* C8: a product is in products_activated if and only if some team of the
\* list has its flag set, no other name is listed, and no name is listed
\* twice.
C8_ProductsAreOred ==
    pc = "returned" =>
        LET products == ret.products_activated
        IN  /\ \A k \in 1..Len(PRODUCT_FLAGS) :
                  (PRODUCT_FLAGS[k][2] \in Range(products))
                      <=> (\E i \in 1..Len(args) : args[i][PRODUCT_FLAGS[k][1]])
            /\ Range(products) \subseteq
                  {"feature_flags", "surveys", "error_tracking", "ai"}
            /\ Cardinality(Range(products)) = Len(products)

\* surveys on both teams, ai on one, error_tracking on none
C8_Witness ==
    /\ pc = "returned"
    /\ Len(args) = 2
    /\ args[1].has_surveys /\ args[2].has_surveys
    /\ args[1].has_ai /\ ~args[2].has_ai
    /\ ~args[1].has_error_tracking /\ ~args[2].has_error_tracking
    /\ ~args[1].has_feature_flags /\ ~args[2].has_feature_flags
    /\ ret.products_activated = <<"surveys", "ai">>

-----------------------------------------------------------------------------
(* get_teams_with_recordings_in_period on its own *)

ReplayTimes == {40, 50, 55}

ReplayRows ==
    [team_id : TeamIds, session_id : {"r1", "r2"},
     min_first_timestamp : ReplayTimes]

RecordingPeriods == {<<53, 60>>, <<30, 60>>, <<60, 53>>}

TeamIdLists == {<<>>, <<1>>, <<1, 2>>}

\* a recording snapshot is ingested
InsertReplay(row) ==
    /\ pc = "idle"
    /\ RowCount < MaxRows
    /\ row \notin session_replay_events
    /\ session_replay_events' = session_replay_events \cup {row}
    /\ UNCHANGED <<teams, events, dashboards, insights, memberships, pc,
                   args, ret>>
    /\ UNCHANGED callVars
    /\ UNCHANGED serviceVars

ApplyRecordings(period, team_ids) ==
    /\ pc = "idle"
    /\ args' = [begin |-> period[1], end |-> period[2], team_ids |-> team_ids]
    /\ ret' = get_teams_with_recordings_in_period(period[1], period[2],
                                                  team_ids).value
    /\ pc' = "returned"
    /\ UNCHANGED storeVars
    /\ UNCHANGED callVars
    /\ UNCHANGED serviceVars

NextRecordings ==
    \/ \E row \in ReplayRows : InsertReplay(row)
    \/ \E period \in RecordingPeriods, team_ids \in TeamIdLists :
          ApplyRecordings(period, team_ids)

SpecRecordings == Init /\ [][NextRecordings]_vars

\* the first-seen timestamp of a session: the minimum over all its rows
FirstSeen(team_id, session_id) ==
    MinOf({r.min_first_timestamp : r \in
              {x \in session_replay_events :
                  x.team_id = team_id /\ x.session_id = session_id}})

SessionsFirstSeenIn(team_id, begin, end) ==
    {r.session_id : r \in
        {x \in session_replay_events :
            /\ x.team_id = team_id
            /\ FirstSeen(team_id, x.session_id) >= begin
            /\ FirstSeen(team_id, x.session_id) < end}}

\* C5: get_teams_with_recordings_in_period maps each requested team with at
\* least one such session to the number of its sessions whose first-seen
\* timestamp lies in [begin, end); a session first seen before begin is not
\* counted, however long it lasts.
C5_CountsSessionsFirstSeenInPeriod ==
    pc = "returned" =>
        LET counted(t) == SessionsFirstSeenIn(t, args.begin, args.end)
            expected == {t \in Range(args.team_ids) : counted(t) # {}}
        IN  /\ DOMAIN ret = expected
            /\ \A t \in expected : ret[t] = Cardinality(counted(t))

-----------------------------------------------------------------------------
(* Properties of aggregate_usage_signals_for_orgs *)

TeamsOfOrg(o) == {t.id : t \in {x \in teams : x.organization_id = o}}

\* C2: every input organization without a team is mapped to the all-default
\* UsageSignals record, also when another organization of the call has teams.
C2_TeamlessOrgGetsDefaults ==
    pc = "done" =>
        \A o \in Range(org_ids) :
            TeamsOfOrg(o) = {} => o \in DOMAIN result /\ result[o] = UsageSignals

\* C3: the returned map has exactly the input organization ids as its keys.
C3_ResultKeysAreInputIds ==
    pc = "done" => DOMAIN result = Range(org_ids)

\* a repeated id, an organization with a team: one key, a computed record
C3_Witness ==
    /\ pc = "done"
    /\ org_ids = <<"o2", "o2">>
    /\ TeamsOfOrg("o2") # {}
    /\ DOMAIN result = {"o2"}
    /\ result["o2"].active_users_7d > 0

\* C4: when no input organization has a team, the call issues no store query
\* after the organization-to-team lookup and returns the all-default record
\* for every input organization.
C4_ShortCircuitWithoutTeams ==
    (pc # "idle" /\ org_ids # <<>> /\ \A o \in Range(org_ids) : TeamsOfOrg(o) = {})
        => /\ Len(queries) = 1
           /\ queries[1].fn = "get_team_ids_for_orgs"
           /\ pc \in {"resolved", "done"}
           /\ pc = "done" =>
                 result = [o \in Range(org_ids) |-> UsageSignals]

\* rows exist in the stores, but for no team of the input organizations
C4_Witness ==
    /\ pc = "done"
    /\ org_ids = <<"o1", "o2">>
    /\ all_team_ids = <<>>
    /\ events # {}
    /\ \E m \in memberships : m.last_login # None
    /\ Len(queries) = 1
    /\ result["o1"] = UsageSignals

WindowedQueries(fn) == SelectSeq(queries, LAMBDA q : q.fn = fn)

\* C9: the periods of one call come from one reading of the clock:
\* 7-day current [now-7, now), 7-day previous [now-14, now-7), 30-day current
\* [now-30, now), 30-day previous [now-60, now-30); each previous period is as
\* long as its current period and ends where that one starts.
C9_PeriodsFromOneNow ==
    LET usage == WindowedQueries("get_teams_with_usage_signals_in_period")
        others == SelectSeq(queries, LAMBDA q :
                      q.fn \in {"get_teams_with_recordings_in_period",
                                "Dashboard", "Insight"})
    IN  /\ Len(usage) \in {0, 2, 4}
        /\ Len(usage) >= 2 =>
              /\ <<usage[1].begin, usage[1].end>> = <<now - 7, now>>
              /\ <<usage[2].begin, usage[2].end>> = <<now - 14, now - 7>>
              /\ usage[2].end = usage[1].begin
              /\ usage[2].end - usage[2].begin = usage[1].end - usage[1].begin
        /\ Len(usage) = 4 =>
              /\ <<usage[3].begin, usage[3].end>> = <<now - 30, now>>
              /\ <<usage[4].begin, usage[4].end>> = <<now - 60, now - 30>>
              /\ usage[4].end = usage[3].begin
              /\ usage[4].end - usage[4].begin = usage[3].end - usage[3].begin
        /\ \A i \in 1..Len(others) :
              \/ <<others[i].begin, others[i].end>> = <<now - 7, now>>
              \/ <<others[i].begin, others[i].end>> = <<now - 30, now>>

C9_Witness ==
    /\ pc = "done"
    /\ now = 62
    /\ Len(WindowedQueries("get_teams_with_usage_signals_in_period")) = 4
    /\ WindowedQueries("get_teams_with_usage_signals_in_period")[4].begin = 2
    /\ WindowedQueries("get_teams_with_usage_signals_in_period")[4].end = 32

RECURSIVE SumOver(_, _)
\* the sum of f over the finite set S
SumOver(f, S) ==
    IF S = {} THEN 0
    ELSE LET x == CHOOSE y \in S : TRUE
         IN  f[x] + SumOver(f, S \ {x})

EventsOfTeam(t, begin, end) ==
    {e \in events : e.team_id = t /\ e.timestamp >= begin /\ e.timestamp < end}

\* the organization's active users in [begin, end): its teams' distinct persons
OrgActiveUsers(o, begin, end) ==
    SumOver([t \in TeamsOfOrg(o) |->
                Cardinality({e.person_id : e \in EventsOfTeam(t, begin, end)})],
            TeamsOfOrg(o))

\* the organization's sessions in [begin, end): its teams' distinct sessions
OrgSessions(o, begin, end) ==
    SumOver([t \in TeamsOfOrg(o) |->
                Cardinality({e.session_id : e \in
                    {x \in EventsOfTeam(t, begin, end) : x.session_id # None}})],
            TeamsOfOrg(o))

\* m is the percentage change from previous to current, None if previous is 0
IsMomentum(m, current, previous) ==
    /\ (m = None) <=> (previous = 0)
    /\ m # None => m[2] > 0 /\ m[1] * previous = m[2] * 100 * (current - previous)

\* C10: for each organization and granularity, the active-users momentum and
\* the sessions momentum are the percentage change from the organization's
\* previous-period sum to its current-period sum, and None exactly when the
\* previous-period sum is zero.
C10_MomentumOfOrgSums ==
    (pc = "done" /\ org_ids # <<>>) =>
        \A o \in Range(org_ids) :
            /\ IsMomentum(result[o].active_users_7d_momentum,
                          OrgActiveUsers(o, now - 7, now),
                          OrgActiveUsers(o, now - 14, now - 7))
            /\ IsMomentum(result[o].sessions_7d_momentum,
                          OrgSessions(o, now - 7, now),
                          OrgSessions(o, now - 14, now - 7))
            /\ IsMomentum(result[o].active_users_30d_momentum,
                          OrgActiveUsers(o, now - 30, now),
                          OrgActiveUsers(o, now - 60, now - 30))
            /\ IsMomentum(result[o].sessions_30d_momentum,
                          OrgSessions(o, now - 30, now),
                          OrgSessions(o, now - 60, now - 30))

\* one organization with the same person active in both 7-day periods
\* outside any session; the other has a team without any row
C10_Witness ==
    /\ pc = "done"
    /\ org_ids = <<"o1", "o2">>
    /\ TeamsOfOrg("o1") # {}
    /\ TeamsOfOrg("o2") # {}
    /\ result["o1"].active_users_7d_momentum = <<0, 1>>
    /\ result["o1"].sessions_7d_momentum = None
    /\ result["o2"].active_users_7d_momentum = None
    /\ result["o2"].active_users_30d_momentum = None

\* the organization's events in [begin, end)
OrgEvents(o, begin, end) ==
    SumOver([t \in TeamsOfOrg(o) |-> Cardinality(EventsOfTeam(t, begin, end))],
            TeamsOfOrg(o))

\* m is the momentum of events / sessions, None when either period has no
\* session
IsEpsMomentum(m, o, start, end, prev_start) ==
    LET ce == OrgEvents(o, start, end)
        cs == OrgSessions(o, start, end)
        pe == OrgEvents(o, prev_start, start)
        ps == OrgSessions(o, prev_start, start)
    IN  /\ (cs = 0 \/ ps = 0) => m = None
        /\ (cs > 0 /\ ps > 0) =>
              /\ (m = None) <=> (pe = 0)
              /\ m # None =>
                    /\ m[2] > 0
                    /\ m[1] * cs * pe = m[2] * 100 * (ce * ps - pe * cs)

\* C11: for each organization and granularity the events-per-session momentum
\* is None when the current or the previous period has no session, and
\* otherwise is the percentage change from the previous to the current
\* events per session.
C11_EpsMomentumNeedsBothPeriods ==
    (pc = "done" /\ org_ids # <<>>) =>
        \A o \in Range(org_ids) :
            /\ IsEpsMomentum(result[o].events_per_session_7d_momentum,
                             o, now - 7, now, now - 14)
            /\ IsEpsMomentum(result[o].events_per_session_30d_momentum,
                             o, now - 30, now, now - 60)

\* sessions in both 7-day periods; the previous 30-day period has none
C11_Witness ==
    /\ pc = "done"
    /\ "o1" \in DOMAIN result
    /\ result["o1"].events_per_session_7d_momentum = <<0, 1>>
    /\ result["o1"].events_per_session_30d = <<2, 1>>
    /\ result["o1"].events_per_session_30d_momentum = None

-----------------------------------------------------------------------------
(* aggregate_usage_signals_for_orgs over dashboards, insights, recordings   *)
(* and product events                                                       *)

\* rows of the Dashboard and Insight tables: one per team and creation time
ContentModelRows ==
    {[id |-> 2 * (t - 1) + k, team_id |-> t,
      created_at |-> IF k = 1 THEN 55 ELSE 47, deleted |-> FALSE] :
        t \in TeamIds, k \in {1, 2}}

ContentEventRows ==
    {[team_id |-> t, timestamp |-> ts, person_id |-> x[1], distinct_id |-> x[1],
      session_id |-> <<"s1">>, event |-> x[2]] :
        t \in TeamIds, ts \in {47, 55},
        x \in {<<"p1", "$pageview">>, <<"p2", "survey sent">>}}

ContentReplayRows ==
    [team_id : TeamIds, session_id : {"r1"}, min_first_timestamp : {40, 55}]

\* Dashboard.objects.create
CreateDashboard(row) ==
    /\ pc = "idle"
    /\ RowCount < MaxRows
    /\ \A d \in dashboards : d.id # row.id
    /\ \E t \in teams : t.id = row.team_id
    /\ dashboards' = dashboards \cup {row}
    /\ UNCHANGED <<teams, events, session_replay_events, insights,
                   memberships, pc, args, ret>>
    /\ UNCHANGED callVars
    /\ UNCHANGED serviceVars

\* Insight.objects.create
CreateInsight(row) ==
    /\ pc = "idle"
    /\ RowCount < MaxRows
    /\ \A d \in insights : d.id # row.id
    /\ \E t \in teams : t.id = row.team_id
    /\ insights' = insights \cup {row}
    /\ UNCHANGED <<teams, events, session_replay_events, dashboards,
                   memberships, pc, args, ret>>
    /\ UNCHANGED callVars
    /\ UNCHANGED serviceVars

NextContent ==
    \/ \E row \in TeamRows : CreateTeam(row)
    \/ \E row \in ContentEventRows : InsertEvent(row)
    \/ \E row \in ContentReplayRows : InsertReplay(row)
    \/ \E row \in ContentModelRows : CreateDashboard(row)
    \/ \E row \in ContentModelRows : CreateInsight(row)
    \/ \E ids \in OrgIdLists, t \in NowValues : Call(ids, t)
    \/ ShortCircuit
    \/ FetchP7
    \/ FetchP30
    \/ \E elapsed \in LoginElapsed : FetchLoginRecency(elapsed)
    \/ BuildResult

SpecContent == Init /\ [][NextContent]_vars

\* the organization's live records of a table created in [begin, end)
OrgModelCount(table, o, begin, end) ==
    Cardinality({r \in table :
                    /\ r.team_id \in TeamsOfOrg(o)
                    /\ r.created_at >= begin
                    /\ r.created_at < end
                    /\ ~r.deleted})

\* v is count / users, None if there is no user
IsPerUser(v, count, users) ==
    /\ (v = None) <=> (users = 0)
    /\ v # None => v[2] > 0 /\ v[1] * users = v[2] * count

\* C12: for each organization and granularity, insights_per_user and
\* dashboards_per_user are the organization's insights (dashboards) created
\* in the current period, 0 if it has none, divided by its active users of
\* that period, and None exactly when it has no active user.
C12_PerUserMetrics ==
    (pc = "done" /\ org_ids # <<>>) =>
        \A o \in Range(org_ids) :
            /\ IsPerUser(result[o].insights_per_user_7d,
                         OrgModelCount(insights, o, now - 7, now),
                         OrgActiveUsers(o, now - 7, now))
            /\ IsPerUser(result[o].dashboards_per_user_7d,
                         OrgModelCount(dashboards, o, now - 7, now),
                         OrgActiveUsers(o, now - 7, now))
            /\ IsPerUser(result[o].insights_per_user_30d,
                         OrgModelCount(insights, o, now - 30, now),
                         OrgActiveUsers(o, now - 30, now))
            /\ IsPerUser(result[o].dashboards_per_user_30d,
                         OrgModelCount(dashboards, o, now - 30, now),
                         OrgActiveUsers(o, now - 30, now))

\* one active user; an insight in the 30-day period only, no dashboard
C12_Witness ==
    /\ pc = "done"
    /\ "o1" \in DOMAIN result
    /\ result["o1"].active_users_7d = 1
    /\ result["o1"].insights_per_user_7d = <<0, 1>>
    /\ result["o1"].insights_per_user_30d = <<1, 1>>
    /\ result["o1"].dashboards_per_user_30d = <<0, 1>>
    /\ "o1" \in DOMAIN p30.insights
    /\ "o1" \notin DOMAIN p7.insights
    /\ "o1" \notin DOMAIN p30.dashboards

\* some team of the organization has a positive fetched recording count
OrgHasRecordings(o, recordings) ==
    \E t \in TeamsOfOrg(o) : t \in DOMAIN recordings /\ recordings[t] > 0

Occurrences(list, x) == Cardinality({i \in 1..Len(list) : list[i] = x})

\* C13: for each organization and granularity, "recordings" is listed in
\* products_activated if and only if one of the organization's own teams has
\* a positive recording count in the fetch of that granularity's current
\* period; it is listed at most once.
C13_RecordingsOfOwnTeams ==
    (pc = "done" /\ org_ids # <<>>) =>
        \A o \in Range(org_ids) :
            /\ ("recordings" \in Range(result[o].products_activated_7d))
                  <=> OrgHasRecordings(o, p7.recordings)
            /\ ("recordings" \in Range(result[o].products_activated_30d))
                  <=> OrgHasRecordings(o, p30.recordings)
            /\ Occurrences(result[o].products_activated_7d, "recordings") <= 1
            /\ Occurrences(result[o].products_activated_30d, "recordings") <= 1

\* both organizations have a team; the recorded one has no event row at all
C13_Witness ==
    /\ pc = "done"
    /\ org_ids = <<"o1", "o2">>
    /\ TeamsOfOrg("o1") # {}
    /\ TeamsOfOrg("o2") # {}
    /\ events = {}
    /\ result["o1"].products_activated_7d = <<"recordings">>
    /\ result["o2"].products_activated_7d = <<>>
    /\ result["o2"].products_activated_30d = <<>>

-----------------------------------------------------------------------------
(* aggregate_usage_signals_for_orgs when a store query raises               *)

\* the k-th query of a fetch raises: the queries up to it were issued, the
\* exception leaves the function, which has no handler
Raise(attempted, k) ==
    /\ k \in 1..Len(attempted)
    /\ queries' = queries \o SubSeq(attempted, 1, k)
    /\ raised' = <<attempted[k]>>
    /\ pc' = "raised"

\* get_team_ids_for_orgs raises
CallFails(ids, t) ==
    /\ pc = "idle"
    /\ ids # <<>>
    /\ org_ids' = ids
    /\ now' = t
    /\ Raise(get_team_ids_for_orgs(ids).queries, 1)
    /\ UNCHANGED <<org_to_teams, all_team_ids, p7, p30, login_recency, result,
                   args, ret>>
    /\ UNCHANGED storeVars
    /\ UNCHANGED serviceVars

\* slip: the failure of a 7-day fetch is caught and the period left empty
FetchP7Fails_swallowed(k) ==
    /\ pc = "resolved"
    /\ all_team_ids # <<>>
    /\ LET p == periods(now)
           fetched == fetch_period_data(p.p7_start, p.p7_end, p.p7_prev_start,
                                        all_team_ids, org_ids)
       IN  /\ k \in 1..Len(fetched.queries)
           /\ queries' = queries \o SubSeq(fetched.queries, 1, k)
           /\ raised' = <<fetched.queries[k]>>
    /\ p7' = NoPeriodData
    /\ pc' = "fetched_p7"
    /\ UNCHANGED <<org_ids, now, org_to_teams, all_team_ids, p30,
                   login_recency, result, args, ret>>
    /\ UNCHANGED storeVars
    /\ UNCHANGED serviceVars

\* the k-th query of fetch_period_data(p7_start, p7_end, p7_prev_start) raises
FetchP7Fails(k) ==
    /\ pc = "resolved"
    /\ all_team_ids # <<>>
    /\ LET p == periods(now)
       IN  Raise(fetch_period_data(p.p7_start, p.p7_end, p.p7_prev_start,
                                   all_team_ids, org_ids).queries, k)
    /\ UNCHANGED <<org_ids, now, org_to_teams, all_team_ids, p7, p30,
                   login_recency, result, args, ret>>
    /\ UNCHANGED storeVars
    /\ UNCHANGED serviceVars

\* the k-th query of fetch_period_data(p30_start, p30_end, p30_prev_start)
\* raises
FetchP30Fails(k) ==
    /\ pc = "fetched_p7"
    /\ LET p == periods(now)
       IN  Raise(fetch_period_data(p.p30_start, p.p30_end, p.p30_prev_start,
                                   all_team_ids, org_ids).queries, k)
    /\ UNCHANGED <<org_ids, now, org_to_teams, all_team_ids, p7, p30,
                   login_recency, result, args, ret>>
    /\ UNCHANGED storeVars
    /\ UNCHANGED serviceVars

\* get_org_login_recency raises
FetchLoginRecencyFails(elapsed) ==
    /\ pc = "fetched_p30"
    /\ Raise(get_org_login_recency(org_ids, now + elapsed).queries, 1)
    /\ UNCHANGED <<org_ids, now, org_to_teams, all_team_ids, p7, p30,
                   login_recency, result, args, ret>>
    /\ UNCHANGED storeVars
    /\ UNCHANGED serviceVars

\* the queries one fetch_period_data issues
QueriesPerPeriod == 1..5

NextFailure ==
    \/ \E row \in TeamRows : CreateTeam(row)
    \/ \E row \in ContentEventRows : InsertEvent(row)
    \/ \E ids \in OrgIdLists, t \in NowValues : Call(ids, t)
    \/ \E ids \in OrgIdLists, t \in NowValues : CallFails(ids, t)
    \/ ShortCircuit
    \/ FetchP7
    \/ \E k \in QueriesPerPeriod : FetchP7Fails(k)
    \/ FetchP30
    \/ \E k \in QueriesPerPeriod : FetchP30Fails(k)
    \/ \E elapsed \in LoginElapsed : FetchLoginRecency(elapsed)
    \/ \E elapsed \in LoginElapsed : FetchLoginRecencyFails(elapsed)
    \/ BuildResult

SpecFailure == Init /\ [][NextFailure]_vars

\* the same query: the same function with the same arguments
SameQuery(a, b) == a.fn = b.fn /\ a = b

\* C14: once a store query has raised, the call has ended with that
\* exception: nothing is returned, the failed query is the last one issued
\* and was issued once, and a call that returns a map has seen no failure.
C14_FetchFailureAbortsCall ==
    /\ raised # None =>
          /\ pc = "raised"
          /\ result = EmptyDict
          /\ queries # <<>>
          /\ SameQuery(queries[Len(queries)], raised[1])
          /\ \A i \in 1..(Len(queries) - 1) :
                ~SameQuery(queries[i], raised[1])
    /\ pc = "done" => raised = None

\* the login query fails after both periods were fetched with data
C14_Witness ==
    /\ pc = "raised"
    /\ raised # None
    /\ raised[1].fn = "get_org_login_recency"
    /\ p7.signals_by_team # EmptyDict
    /\ Len(queries) = 12
    /\ result = EmptyDict

-----------------------------------------------------------------------------
(* The six fetches, each called on its own over stores with content *)

FetchOrgIdLists == {<<>>, <<"o1">>, <<"o1", "o2">>, <<"o3">>, <<"o2", "o3">>}

FetchPeriods == {<<53, 60>>, <<60, 60>>, <<60, 53>>}

\* one fetch called by itself: its arguments, its return value and the
\* store queries it issued
Return(fn, ids, period, clock, fetched) ==
    /\ pc = "idle"
    /\ args' = [fn |-> fn, ids |-> ids, period |-> period]
    /\ now' = clock
    /\ ret' = fetched.value
    /\ queries' = fetched.queries
    /\ pc' = "returned"
    /\ UNCHANGED <<org_ids, org_to_teams, all_team_ids, p7, p30,
                   login_recency, result, raised>>
    /\ UNCHANGED storeVars
    /\ UNCHANGED serviceVars

ApplyTeamIdsForOrgs(ids) ==
    Return("get_team_ids_for_orgs", ids, None, now, get_team_ids_for_orgs(ids))

ApplyUsageSignals(period, team_ids) ==
    Return("get_teams_with_usage_signals_in_period", team_ids, period, now,
           get_teams_with_usage_signals_in_period(period[1], period[2],
                                                  team_ids))

ApplyRecordingsInPeriod(period, team_ids) ==
    Return("get_teams_with_recordings_in_period", team_ids, period, now,
           get_teams_with_recordings_in_period(period[1], period[2], team_ids))

ApplyDashboardsCount(ids, period) ==
    Return("get_org_dashboards_count", ids, period, now,
           get_org_dashboards_count(ids, period[1], period[2]))

ApplyInsightsCount(ids, period) ==
    Return("get_org_insights_count", ids, period, now,
           get_org_insights_count(ids, period[1], period[2]))

\* now = datetime.now(tz=UTC) is read inside the function
ApplyLoginRecency(ids, login_now) ==
    Return("get_org_login_recency", ids, None, login_now,
           get_org_login_recency(ids, login_now))

NextFetch ==
    \/ \E row \in TeamRows : CreateTeam(row)
    \/ \E row \in ContentEventRows : InsertEvent(row)
    \/ \E row \in ContentReplayRows : InsertReplay(row)
    \/ \E row \in ContentModelRows : CreateDashboard(row)
    \/ \E row \in ContentModelRows : CreateInsight(row)
    \/ \E row \in MembershipRows : AddMembership(row)
    \/ \E ids \in FetchOrgIdLists : ApplyTeamIdsForOrgs(ids)
    \/ \E period \in FetchPeriods, team_ids \in TeamIdLists :
          ApplyUsageSignals(period, team_ids)
    \/ \E period \in FetchPeriods, team_ids \in TeamIdLists :
          ApplyRecordingsInPeriod(period, team_ids)
    \/ \E ids \in FetchOrgIdLists, period \in FetchPeriods :
          ApplyDashboardsCount(ids, period)
    \/ \E ids \in FetchOrgIdLists, period \in FetchPeriods :
          ApplyInsightsCount(ids, period)
    \/ \E ids \in FetchOrgIdLists, t \in NowValues : ApplyLoginRecency(ids, t)

SpecFetch == Init /\ [][NextFetch]_vars

FetchNames ==
    {"get_team_ids_for_orgs", "get_teams_with_usage_signals_in_period",
     "get_teams_with_recordings_in_period", "get_org_dashboards_count",
     "get_org_insights_count", "get_org_login_recency"}

\* C15: a fetch called with an empty id list, and the recordings fetch
\* called with a window whose begin is not before its end, issues no store
\* query and returns an empty result.
C15_EmptyInputIssuesNoQuery ==
    (pc = "returned" /\ args.fn \in FetchNames) =>
        LET degenerate ==
                /\ args.fn = "get_teams_with_recordings_in_period"
                /\ args.period[1] >= args.period[2]
        IN  (args.ids = <<>> \/ degenerate) => (queries = <<>> /\ ret = <<>>)

\* team 1 has a recording at day 55; the window (60, 53) is not queried
C15_Witness ==
    /\ pc = "returned"
    /\ args.fn = "get_teams_with_recordings_in_period"
    /\ args.ids = <<1>>
    /\ args.period = <<60, 53>>
    /\ \E r \in session_replay_events :
          r.team_id = 1 /\ r.min_first_timestamp = 55
    /\ queries = <<>>
    /\ ret = EmptyDict

\* C16: get_team_ids_for_orgs returns one key per input organization id,
\* each mapped to exactly the ids of the teams of that organization, each
\* once; an organization without teams and an unknown id map to the empty
\* list.
C16_TeamIdsPerInputOrg ==
    (pc = "returned" /\ args.fn = "get_team_ids_for_orgs") =>
        /\ DOMAIN ret = Range(args.ids)
        /\ \A o \in Range(args.ids) :
              /\ Range(ret[o]) = TeamsOfOrg(o)
              /\ Len(ret[o]) = Cardinality(TeamsOfOrg(o))

\* o2 has a team, the unknown o3 has none; o1's team is not in the map
C16_Witness ==
    /\ pc = "returned"
    /\ args.fn = "get_team_ids_for_orgs"
    /\ args.ids = <<"o2", "o3">>
    /\ TeamsOfOrg("o1") = {1}
    /\ TeamsOfOrg("o2") = {2}
    /\ ret["o2"] = <<2>>
    /\ ret["o3"] = <<>>

-----------------------------------------------------------------------------
(* Login recency: members with different last logins *)

\* User.last_login in half days: never, day 50.5, day 58.5
LoginHalfDays == {None, <<101>>, <<117>>}

LoginMembershipRows ==
    [organization_id : Orgs, user_id : {"u1", "u2"}, last_login : LoginHalfDays]

NextLogin ==
    \/ \E row \in TeamRows : CreateTeam(row)
    \/ \E row \in LoginMembershipRows : AddMembership(row)
    \/ \E ids \in FetchOrgIdLists, t \in NowValues : ApplyLoginRecency(ids, t)
    \/ \E ids \in OrgIdLists, t \in NowValues : Call(ids, t)
    \/ ShortCircuit
    \/ FetchP7
    \/ FetchP30
    \/ \E elapsed \in LoginElapsed : FetchLoginRecency(elapsed)
    \/ BuildResult

SpecLogin == Init /\ [][NextLogin]_vars

\* the last logins, in half days, of the organization's members who have one
LastLogins(o) ==
    {m.last_login[1] : m \in
        {x \in memberships : x.organization_id = o /\ x.last_login # None}}

\* d whole days have elapsed at day t since the half day h
WholeDaysSince(d, t, h) == 2 * d <= 2 * t - h /\ 2 * t - h < 2 * d + 2

\* C17: get_org_login_recency maps each organization whose members have a
\* last login to the whole days elapsed from the clock it reads to the
\* latest of them; an organization without any is absent or mapped to None,
\* and aggregate_usage_signals_for_orgs gives it days_since_last_login None.
C17_DaysSinceMostRecentLogin ==
    /\ (pc = "returned" /\ args.fn = "get_org_login_recency") =>
          \A o \in Range(args.ids) :
              IF LastLogins(o) = {}
              THEN Get(ret, o, None) = None
              ELSE /\ o \in DOMAIN ret
                   /\ ret[o] # None
                   /\ WholeDaysSince(ret[o][1], now, MaxOf(LastLogins(o)))
    /\ (pc = "done" /\ org_ids # <<>>) =>
          \A o \in Range(org_ids) :
              LastLogins(o) = {} => result[o].days_since_last_login = None

\* two members, last seen on day 50.5 and day 58.5; at day 60 that is 1 day
C17_Witness ==
    /\ pc = "returned"
    /\ args.fn = "get_org_login_recency"
    /\ LastLogins("o1") = {101, 117}
    /\ now = 60
    /\ "o1" \in DOMAIN ret
    /\ ret["o1"] = <<1>>

-----------------------------------------------------------------------------
(* Dashboard and Insight counts: records around the period's two ends,      *)
(* and soft-deleted ones                                                     *)

\* <<created_at, deleted>>
ModelShapes ==
    {<<52, FALSE>>, <<53, FALSE>>, <<59, FALSE>>, <<60, FALSE>>, <<55, TRUE>>}

CountModelRows ==
    {[id |-> i, team_id |-> t, created_at |-> x[1], deleted |-> x[2]] :
        i \in {1, 2}, t \in TeamIds, x \in ModelShapes}

CountPeriods == {<<53, 60>>, <<30, 60>>}

NextCounts ==
    \/ \E row \in TeamRows : CreateTeam(row)
    \/ \E row \in CountModelRows : CreateDashboard(row)
    \/ \E row \in CountModelRows : CreateInsight(row)
    \/ \E ids \in FetchOrgIdLists, period \in CountPeriods :
          ApplyDashboardsCount(ids, period)
    \/ \E ids \in FetchOrgIdLists, period \in CountPeriods :
          ApplyInsightsCount(ids, period)

SpecCounts == Init /\ [][NextCounts]_vars

\* C18: get_org_dashboards_count and get_org_insights_count map each input
\* organization to the number of its teams' records created at or after
\* period_start and before period_end that are not soft-deleted; an
\* organization with no such record has no key, and there is no other key.
C18_CountsCreatedInPeriod ==
    (pc = "returned"
     /\ args.fn \in {"get_org_dashboards_count", "get_org_insights_count"}) =>
        LET table == IF args.fn = "get_org_dashboards_count"
                     THEN dashboards ELSE insights
            n(o) == OrgModelCount(table, o, args.period[1], args.period[2])
        IN  /\ DOMAIN ret \subseteq Range(args.ids)
            /\ \A o \in Range(args.ids) :
                  IF n(o) = 0 THEN o \notin DOMAIN ret
                  ELSE o \in DOMAIN ret /\ ret[o] = n(o)

\* a dashboard created at period_start and one at period_end: one is counted
C18_Witness ==
    /\ pc = "returned"
    /\ args.fn = "get_org_dashboards_count"
    /\ args.period = <<53, 60>>
    /\ "o1" \in Range(args.ids)
    /\ \E a, b \in dashboards :
          /\ a.created_at = 53
          /\ b.created_at = 60
          /\ {a.team_id, b.team_id} \subseteq TeamsOfOrg("o1")
    /\ "o1" \in DOMAIN ret
    /\ ret["o1"] = 1

-----------------------------------------------------------------------------
(* prepare_salesforce_update_record: a UsageSignals record to the fields    *)
(* of one CRM account update                                                *)

\* the int fields of UsageSignals, never None
IntAttrs == {"active_users_7d", "active_users_30d", "sessions_7d", "sessions_30d"}

\* attribute of UsageSignals, CRM field
FIELD_MAPPINGS ==
    << <<"active_users_7d", "posthog_active_users_7d__c">>,
       <<"active_users_30d", "posthog_active_users_30d__c">>,
       <<"sessions_7d", "posthog_sessions_7d__c">>,
       <<"sessions_30d", "posthog_sessions_30d__c">>,
       <<"events_per_session_7d", "posthog_events_per_session_7d__c">>,
       <<"events_per_session_30d", "posthog_events_per_session_30d__c">>,
       <<"insights_per_user_7d", "posthog_insights_per_user_7d__c">>,
       <<"insights_per_user_30d", "posthog_insights_per_user_30d__c">>,
       <<"dashboards_per_user_7d", "posthog_dashboards_per_user_7d__c">>,
       <<"dashboards_per_user_30d", "posthog_dashboards_per_user_30d__c">>,
       <<"days_since_last_login", "posthog_last_login_days__c">>,
       <<"active_users_7d_momentum", "posthog_active_users_7d_momentum__c">>,
       <<"active_users_30d_momentum", "posthog_active_users_30d_momentum__c">>,
       <<"sessions_7d_momentum", "posthog_sessions_7d_momentum__c">>,
       <<"sessions_30d_momentum", "posthog_sessions_30d_momentum__c">>,
       <<"events_per_session_7d_momentum", "posthog_eps_7d_momentum__c">>,
       <<"events_per_session_30d_momentum", "posthog_eps_30d_momentum__c">> >>

PRODUCTS_7D_FIELD == "posthog_products_7d__c"

PRODUCTS_30D_FIELD == "posthog_products_30d__c"

\* the product names in the order Python's string comparison gives them
ProductOrder ==
    <<"ai", "analytics", "error_tracking", "feature_flags", "recordings",
      "surveys">>

\* a < b on product names
StrLess(a, b) ==
    \E i, j \in 1..Len(ProductOrder) :
        ProductOrder[i] = a /\ ProductOrder[j] = b /\ i < j

RECURSIVE sorted(_)
\* sorted(names)
sorted(names) ==
    IF names = <<>> THEN <<>>
    ELSE LET rest == sorted(Tail(names))
             x == Head(names)
             before == SelectSeq(rest, LAMBDA y : StrLess(y, x))
             after == SelectSeq(rest, LAMBDA y : ~StrLess(y, x))
         IN  before \o <<x>> \o after

RECURSIVE join(_)
\* ",".join(names)
join(names) ==
    IF names = <<>> THEN ""
    ELSE IF Len(names) = 1 THEN names[1]
    ELSE names[1] \o "," \o join(Tail(names))

\* slip: the names are joined in the order of the list
products_field_unsorted(names) == join(names)

\* the value of an activated-products field
products_field(names) == join(sorted(names))

\* slip: a value is written when it is truthy, which 0 and 0.0 are not
emitted_mappings_truthy(signals) ==
    SelectSeq(FIELD_MAPPINGS,
              LAMBDA m : IF m[1] \in IntAttrs THEN signals[m[1]] # 0
                         ELSE /\ signals[m[1]] # None
                              /\ signals[m[1]][1] # 0)

\* the mappings whose value is written: those whose source value is not None
emitted_mappings(signals) ==
    SelectSeq(FIELD_MAPPINGS,
              LAMBDA m : m[1] \in IntAttrs \/ signals[m[1]] # None)

prepare_salesforce_update_record(salesforce_account_id, signals) ==
    LET emitted == emitted_mappings(signals)
        attr_of(k) == (CHOOSE i \in 1..Len(emitted) : emitted[i][2] = k)
        keys == {"Id", PRODUCTS_7D_FIELD, PRODUCTS_30D_FIELD}
                \cup {emitted[i][2] : i \in 1..Len(emitted)}
    IN  [k \in keys |->
            IF k = "Id" THEN salesforce_account_id
            ELSE IF k = PRODUCTS_7D_FIELD
            THEN products_field(signals.products_activated_7d)
            ELSE IF k = PRODUCTS_30D_FIELD
            THEN products_field(signals.products_activated_30d)
            ELSE signals[emitted[attr_of(k)][1]]]

\* fields of a UsageSignals record that may differ from the default
MaxChanges == 2

AccountIds == {"001ABC123", "001XYZ789"}

ProductLists ==
    {<<"recordings">>,
     <<"analytics", "recordings", "feature_flags">>,
     <<"feature_flags", "recordings", "analytics">>,
     <<"surveys", "ai">>}

\* the values a field of UsageSignals may be given, besides its default
FieldValues(attr) ==
    IF attr \in IntAttrs THEN {3}
    ELSE IF attr = "days_since_last_login" THEN {<<0>>, <<3>>}
    ELSE IF attr \in {"products_activated_7d", "products_activated_30d"}
    THEN ProductLists
    ELSE {<<0, 1>>, <<21, 2>>, <<-3, 2>>}

Changed(signals) ==
    {attr \in DOMAIN UsageSignals : signals[attr] # UsageSignals[attr]}

InitCrm ==
    /\ StoresEmpty
    /\ CallIdle
    /\ pc = "idle"
    /\ args \in [salesforce_account_id : AccountIds, signals : {UsageSignals}]
    /\ ret = None
    /\ ServicesIdle

\* a field of the UsageSignals record to translate is given a value
SetSignal(attr, value) ==
    /\ pc = "idle"
    /\ args.signals[attr] = UsageSignals[attr]
    /\ Cardinality(Changed(args.signals)) < MaxChanges
    /\ args' = [args EXCEPT !.signals[attr] = value]
    /\ UNCHANGED <<pc, ret>>
    /\ UNCHANGED storeVars
    /\ UNCHANGED callVars
    /\ UNCHANGED serviceVars

ApplyPrepareRecord ==
    /\ pc = "idle"
    /\ ret' = prepare_salesforce_update_record(args.salesforce_account_id,
                                               args.signals)
    /\ pc' = "returned"
    /\ UNCHANGED args
    /\ UNCHANGED storeVars
    /\ UNCHANGED callVars
    /\ UNCHANGED serviceVars

NextCrm ==
    \/ \E attr \in DOMAIN UsageSignals :
          \E value \in FieldValues(attr) : SetSignal(attr, value)
    \/ ApplyPrepareRecord

SpecCrm == InitCrm /\ [][NextCrm]_vars

\* the CRM fields of the numeric attributes, and of the nullable ones
NumericFields == {FIELD_MAPPINGS[i][2] : i \in 1..Len(FIELD_MAPPINGS)}

AttrOfField(k) ==
    FIELD_MAPPINGS[CHOOSE i \in 1..Len(FIELD_MAPPINGS) :
                       FIELD_MAPPINGS[i][2] = k][1]

IsNull(signals, attr) == attr \notin IntAttrs /\ signals[attr] = None

\* C19: the record holds the account id under "Id"; it holds the CRM field
\* of a numeric attribute if and only if the attribute is not None, with the
\* attribute's value; it has no other key besides the two products fields,
\* and no key holds None.
C19_NonNullFieldsOnly ==
    pc = "returned" =>
        /\ "Id" \in DOMAIN ret
        /\ ret["Id"] = args.salesforce_account_id
        /\ DOMAIN ret \subseteq
              {"Id", PRODUCTS_7D_FIELD, PRODUCTS_30D_FIELD} \cup NumericFields
        /\ \A k \in NumericFields :
              /\ (k \in DOMAIN ret) <=> ~IsNull(args.signals, AttrOfField(k))
              /\ k \in DOMAIN ret =>
                    /\ ret[k] = args.signals[AttrOfField(k)]
                    /\ AttrOfField(k) \notin IntAttrs => ret[k] # None

\* a momentum of 0.0 and a last login 0 days ago are written; the
\* events per session, left None, is not
C19_Witness ==
    /\ pc = "returned"
    /\ args.signals.active_users_7d_momentum = <<0, 1>>
    /\ args.signals.days_since_last_login = <<0>>
    /\ ret["Id"] = "001ABC123"
    /\ ret["posthog_active_users_7d_momentum__c"] = <<0, 1>>
    /\ ret["posthog_last_login_days__c"] = <<0>>
    /\ ret["posthog_active_users_7d__c"] = 0
    /\ "posthog_events_per_session_7d__c" \notin DOMAIN ret

\* the orderings of a list
Orderings(names) ==
    {[i \in 1..Len(names) |-> names[f[i]]] :
        f \in {g \in [1..Len(names) -> 1..Len(names)] :
                  \A i, j \in 1..Len(names) : g[i] = g[j] => i = j}}

IsSorted(names) ==
    \A i, j \in 1..Len(names) : i < j => ~StrLess(names[j], names[i])

\* the text is the names of the list, each once per occurrence, ascending
\* and separated by commas
IsSortedCsv(text, names) ==
    \E s \in Orderings(names) : IsSorted(s) /\ text = join(s)

\* C20: the record always holds both activated-products fields; each is the
\* names of its list in sorted order, whatever the list's order, joined by
\* commas, and "" for the empty list.
C20_ProductsSortedAndJoined ==
    pc = "returned" =>
        /\ PRODUCTS_7D_FIELD \in DOMAIN ret
        /\ PRODUCTS_30D_FIELD \in DOMAIN ret
        /\ IsSortedCsv(ret[PRODUCTS_7D_FIELD], args.signals.products_activated_7d)
        /\ IsSortedCsv(ret[PRODUCTS_30D_FIELD],
                       args.signals.products_activated_30d)
        /\ args.signals.products_activated_7d = <<>> =>
              ret[PRODUCTS_7D_FIELD] = ""
        /\ args.signals.products_activated_30d = <<>> =>
              ret[PRODUCTS_30D_FIELD] = ""

\* an unsorted 30-day list and an empty 7-day list
C20_Witness ==
    /\ pc = "returned"
    /\ args.signals.products_activated_7d = <<>>
    /\ args.signals.products_activated_30d =
          <<"analytics", "recordings", "feature_flags">>
    /\ ret[PRODUCTS_7D_FIELD] = ""
    /\ ret[PRODUCTS_30D_FIELD] = "analytics,feature_flags,recordings"

-----------------------------------------------------------------------------
(* update_salesforce_usage_activity: one bulk update of CRM accounts *)

\* updates in one call of the activity
MaxUpdates == 3

UpdateAccountIds == {"001ABC", "001DEF", "001GHI", "001JKL"}

\* SalesforceUsageUpdate
SalesforceUsageUpdate(salesforce_account_id, signals) ==
    [salesforce_account_id |-> salesforce_account_id, signals |-> signals]

\* slip: every per-record result is counted
count_successes_all(results) == Len(results)

\* the per-record results whose success flag is true
count_successes(results) ==
    Cardinality({i \in 1..Len(results) : results[i].success})

InitUpdate ==
    /\ StoresEmpty
    /\ CallIdle
    /\ ServicesIdle
    /\ pc = "idle"
    /\ args = <<>>
    /\ ret = None

\* the workflow adds an update to the batch it will pass to the activity
AppendUpdate(salesforce_account_id) ==
    /\ pc = "idle"
    /\ Len(args) < MaxUpdates
    /\ \A i \in 1..Len(args) :
          args[i].salesforce_account_id # salesforce_account_id
    /\ args' = Append(args, SalesforceUsageUpdate(salesforce_account_id,
                                                 UsageSignals))
    /\ UNCHANGED <<pc, ret>>
    /\ UNCHANGED storeVars
    /\ UNCHANGED callVars
    /\ UNCHANGED serviceVars

\* entry: 0 for an empty list, else the records are sent in one bulk call
CallUpdate ==
    /\ pc = "idle"
    /\ IF args = <<>>
       THEN /\ ret' = 0
            /\ pc' = "done"
            /\ UNCHANGED bulk_calls
       ELSE /\ bulk_calls' =
                  Append(bulk_calls,
                         [i \in 1..Len(args) |->
                             prepare_salesforce_update_record(
                                 args[i].salesforce_account_id,
                                 args[i].signals)])
            /\ pc' = "bulk"
            /\ UNCHANGED ret
    /\ UNCHANGED <<args, bulk_response>>
    /\ UNCHANGED storeVars
    /\ UNCHANGED callVars
    /\ UNCHANGED oauthVars

\* the bulk call returns one result per record
BulkReturns(flags) ==
    /\ pc = "bulk"
    /\ DOMAIN flags = 1..Len(args)
    /\ LET results == [i \in 1..Len(args) |->
                          [id |-> args[i].salesforce_account_id,
                           success |-> flags[i]]]
       IN  /\ bulk_response' = <<[exception |-> FALSE, results |-> results]>>
           /\ ret' = count_successes(results)
    /\ pc' = "done"
    /\ UNCHANGED <<args, bulk_calls>>
    /\ UNCHANGED storeVars
    /\ UNCHANGED callVars
    /\ UNCHANGED oauthVars

\* the bulk call raises: the exception is caught and logged
BulkRaises ==
    /\ pc = "bulk"
    /\ bulk_response' = <<[exception |-> TRUE, results |-> <<>>]>>
    /\ ret' = 0
    /\ pc' = "done"
    /\ UNCHANGED <<args, bulk_calls>>
    /\ UNCHANGED storeVars
    /\ UNCHANGED callVars
    /\ UNCHANGED oauthVars

NextUpdate ==
    \/ \E id \in UpdateAccountIds : AppendUpdate(id)
    \/ CallUpdate
    \/ \E n \in 1..(MaxUpdates + 1) : \E flags \in [1..n -> BOOLEAN] :
          BulkReturns(flags)
    \/ BulkRaises

SpecUpdate == InitUpdate /\ [][NextUpdate]_vars

\* C21: the activity always returns: 0 without a bulk call for an empty
\* list, 0 when the bulk call raised, and otherwise the number of
\* per-record results whose success flag is true, failed records aside.
C21_CountsSuccessfulRecords ==
    /\ pc \in {"idle", "bulk", "done"}
    /\ raised = None
    /\ pc = "done" =>
          IF args = <<>> THEN ret = 0 /\ bulk_calls = <<>>
          ELSE /\ Len(bulk_calls) = 1
               /\ Len(bulk_calls[1]) = Len(args)
               /\ bulk_response # None
               /\ IF bulk_response[1].exception THEN ret = 0
                  ELSE /\ Len(bulk_response[1].results) = Len(args)
                       /\ ret = Cardinality(
                              {r \in Range(bulk_response[1].results) :
                                  r.success})

\* three records, the second one fails: 2
C21_Witness ==
    /\ pc = "done"
    /\ Len(args) = 3
    /\ bulk_response # None
    /\ ~bulk_response[1].exception
    /\ bulk_response[1].results[1].success
    /\ ~bulk_response[1].results[2].success
    /\ bulk_response[1].results[3].success
    /\ ret = 2

-----------------------------------------------------------------------------
(* Toolbar authorization handshake: toolbar_oauth_start *)

\* start requests served
MaxStarts == 2

Users == {"u1", "u2"}

\* the user and the current team of the session that sends a request
Sessions == {<<"u1", 1>>, <<"u2", 1>>, <<"u1", 2>>}

\* a URL by its scheme and host name; ports and paths play no part
Url(scheme, host) == [scheme |-> scheme, host |-> host]

\* Team.app_urls
app_urls(team_id) ==
    IF team_id = 1
    THEN {Url("https", "example.com"), Url("http", "localhost"),
          Url("http", "intranet.example.com")}
    ELSE {Url("https", "example.com")}

AppUrlInputs ==
    {Url("https", "example.com"), Url("http", "example.com"),
     Url("http", "localhost"), Url("https", "not-allowed.example.com"),
     Url("http", "intranet.example.com")}

ChallengeMethods == {"S256", "plain"}

LoopbackHosts == {"localhost", "127.0.0.1"}

\* the URL is served over TLS, or by the machine itself
is_secure_or_loopback(url) == url.scheme = "https" \/ url.host \in LoopbackHosts

\* slip: plaintext is accepted for every host
start_error_any_transport(session, app_url, code_challenge_method) ==
    IF code_challenge_method # "S256"
    THEN [status |-> 400, code |-> "invalid_request"]
    ELSE IF app_url \notin app_urls(session[2])
    THEN [status |-> 403, code |-> "permission_denied"]
    ELSE [status |-> 200, code |-> "ok"]

\* the checks of a start request, and the answer they lead to
start_error(session, app_url, code_challenge_method) ==
    IF code_challenge_method # "S256"
    THEN [status |-> 400, code |-> "invalid_request"]
    ELSE IF ~is_secure_or_loopback(app_url)
    THEN [status |-> 400, code |-> "invalid_app_url"]
    ELSE IF app_url \notin app_urls(session[2])
    THEN [status |-> 403, code |-> "permission_denied"]
    ELSE [status |-> 200, code |-> "ok"]

\* the signed state: user id, team id and a nonce
SignedState(session) ==
    [nonce |-> Cardinality(minted) + 1, user |-> session[1],
     team |-> session[2], signature |-> "valid"]

\* POST toolbar_oauth_start
Start(session, app_url, code_challenge_method) ==
    /\ Len(starts) < MaxStarts
    /\ LET answer == start_error(session, app_url, code_challenge_method)
           request == [user |-> session[1], team |-> session[2],
                       app_url |-> app_url,
                       code_challenge_method |-> code_challenge_method]
       IN  IF answer.status = 200
           THEN /\ minted' = minted \cup {SignedState(session)}
                /\ starts' = Append(starts,
                                    [request |-> request, status |-> 200,
                                     code |-> "ok",
                                     state |-> <<SignedState(session)>>])
           ELSE /\ starts' = Append(starts,
                                    [request |-> request,
                                     status |-> answer.status,
                                     code |-> answer.code, state |-> None])
                /\ UNCHANGED minted
    /\ UNCHANGED <<consumed, exchanges, token_calls, applications>>
    /\ UNCHANGED <<pc, args, ret>>
    /\ UNCHANGED storeVars
    /\ UNCHANGED callVars
    /\ UNCHANGED crmVars

NextStart ==
    \E session \in Sessions, app_url \in AppUrlInputs,
       method \in ChallengeMethods : Start(session, app_url, method)

SpecStart == Init /\ [][NextStart]_vars

\* C25: a start is answered 200 with a newly minted state only when the
\* method is S256, the URL is in the team's allow-list and the URL is https
\* or on a loopback host; a URL failing only the allow-list gives 403, one
\* failing only the transport rule gives invalid_app_url, and a rejected
\* start mints no state.
C25_StartMintsOnlyWhenChecksPass ==
    /\ \A i \in 1..Len(starts) :
          LET e == starts[i]
              r == e.request
              method_ok == r.code_challenge_method = "S256"
              listed == r.app_url \in app_urls(r.team)
              transport_ok ==
                  r.app_url.scheme = "https" \/ r.app_url.host \in LoopbackHosts
          IN  /\ (e.status = 200) <=> (method_ok /\ listed /\ transport_ok)
              /\ e.status \in {200, 400, 403}
              /\ e.status = 200 =>
                    /\ e.state # None
                    /\ e.state[1] \in minted
                    /\ e.state[1].user = r.user
                    /\ e.state[1].team = r.team
              /\ e.status # 200 => e.state = None
              /\ (method_ok /\ transport_ok /\ ~listed) => e.status = 403
              /\ (method_ok /\ listed /\ ~transport_ok) =>
                    e.status = 400 /\ e.code = "invalid_app_url"
              /\ e.code = "invalid_app_url" => ~transport_ok
              /\ e.status = 403 => ~listed
    /\ Cardinality(minted) =
          Cardinality({i \in 1..Len(starts) : starts[i].status = 200})

\* a plaintext loopback URL is accepted after a plaintext intranet URL of
\* the same allow-list was refused
C25_Witness ==
    /\ Len(starts) = 2
    /\ starts[1].request.app_url = Url("http", "intranet.example.com")
    /\ starts[1].request.team = 1
    /\ starts[1].code = "invalid_app_url"
    /\ starts[2].request.app_url = Url("http", "localhost")
    /\ starts[2].status = 200
    /\ Cardinality(minted) = 1

-----------------------------------------------------------------------------
(* Toolbar authorization handshake: toolbar_oauth_exchange *)

\* exchange requests received
MaxExchanges == 2

\* sessions that start an authorization before exchanges are made
StartSessions == {<<"u1", 1>>, <<"u2", 1>>}

\* the state with its last character changed: the signature no longer fits
Tampered(state) == [state EXCEPT !.signature = "tampered"]

\* the state values a client can send: those it was given, as given or
\* altered
StateInputs == minted \cup {Tampered(state) : state \in minted}

\* slip: the team bound into the state is not compared with the session's
state_error_without_team(session, state) ==
    IF state \notin minted THEN "invalid_state"
    ELSE IF state.user # session[1] THEN "state_user_mismatch"
    ELSE "ok"

\* validation of the state of an exchange request: signature, user, team
state_error(session, state) ==
    IF state \notin minted THEN "invalid_state"
    ELSE IF state.user # session[1] THEN "state_user_mismatch"
    ELSE IF state.team # session[2] THEN "state_team_mismatch"
    ELSE "ok"

\* POST toolbar_oauth_exchange arrives with code, state and code_verifier
ExchangeArrives(session, state) ==
    /\ Len(exchanges) < MaxExchanges
    /\ state \in StateInputs
    /\ exchanges' = Append(exchanges,
                           [user |-> session[1], team |-> session[2],
                            state |-> state, stage |-> "received",
                            status |-> 0, code |-> ""])
    /\ UNCHANGED <<minted, consumed, starts, token_calls, applications>>
    /\ UNCHANGED <<pc, args, ret>>
    /\ UNCHANGED storeVars
    /\ UNCHANGED callVars
    /\ UNCHANGED crmVars

\* slip: the replay guard reads the marker and leaves setting it for later
ExchangeValidate_check_only(i) ==
    /\ i \in 1..Len(exchanges)
    /\ exchanges[i].stage = "received"
    /\ LET e == exchanges[i]
           error == state_error(<<e.user, e.team>>, e.state)
       IN  IF error # "ok"
           THEN /\ exchanges' = [exchanges EXCEPT ![i].stage = "responded",
                                                  ![i].status = 400,
                                                  ![i].code = error]
                /\ UNCHANGED <<consumed, token_calls>>
           ELSE IF e.state.nonce \in consumed
           THEN /\ exchanges' = [exchanges EXCEPT ![i].stage = "responded",
                                                  ![i].status = 400,
                                                  ![i].code = "state_replay"]
                /\ UNCHANGED <<consumed, token_calls>>
           ELSE /\ token_calls' = Append(token_calls, i)
                /\ exchanges' = [exchanges EXCEPT ![i].stage = "exchanging"]
                /\ UNCHANGED consumed
    /\ UNCHANGED <<minted, starts, applications>>
    /\ UNCHANGED <<pc, args, ret>>
    /\ UNCHANGED storeVars
    /\ UNCHANGED callVars
    /\ UNCHANGED crmVars

\* the state is validated; the replay guard checks and sets the marker of
\* the state in one step; the token endpoint is called
ExchangeValidate(i) ==
    /\ i \in 1..Len(exchanges)
    /\ exchanges[i].stage = "received"
    /\ LET e == exchanges[i]
           error == state_error(<<e.user, e.team>>, e.state)
       IN  IF error # "ok"
           THEN /\ exchanges' = [exchanges EXCEPT ![i].stage = "responded",
                                                  ![i].status = 400,
                                                  ![i].code = error]
                /\ UNCHANGED <<consumed, token_calls>>
           ELSE IF e.state.nonce \in consumed
           THEN /\ exchanges' = [exchanges EXCEPT ![i].stage = "responded",
                                                  ![i].status = 400,
                                                  ![i].code = "state_replay"]
                /\ UNCHANGED <<consumed, token_calls>>
           ELSE /\ consumed' = consumed \cup {e.state.nonce}
                /\ token_calls' = Append(token_calls, i)
                /\ exchanges' = [exchanges EXCEPT ![i].stage = "exchanging"]
    /\ UNCHANGED <<minted, starts, applications>>
    /\ UNCHANGED <<pc, args, ret>>
    /\ UNCHANGED storeVars
    /\ UNCHANGED callVars
    /\ UNCHANGED crmVars

\* what the token endpoint does with the code and the verifier
TokenOutcomes == {"token", "unreachable", "malformed"}

\* slip: a failed token exchange gives the state back
TokenEndpointResponds_releasing(i, outcome) ==
    /\ i \in 1..Len(exchanges)
    /\ exchanges[i].stage = "exchanging"
    /\ exchanges' =
          [exchanges EXCEPT
              ![i].stage = "responded",
              ![i].status = IF outcome = "token" THEN 200
                            ELSE IF outcome = "unreachable" THEN 500 ELSE 502,
              ![i].code = IF outcome = "token" THEN "ok"
                          ELSE IF outcome = "unreachable"
                          THEN "token_exchange_unavailable"
                          ELSE "token_exchange_invalid_response"]
    /\ consumed' = IF outcome = "token" THEN consumed
                   ELSE consumed \ {exchanges[i].state.nonce}
    /\ UNCHANGED <<minted, starts, token_calls, applications>>
    /\ UNCHANGED <<pc, args, ret>>
    /\ UNCHANGED storeVars
    /\ UNCHANGED callVars
    /\ UNCHANGED crmVars

\* the token endpoint answers, or cannot be reached; the exchange responds
TokenEndpointResponds(i, outcome) ==
    /\ i \in 1..Len(exchanges)
    /\ exchanges[i].stage = "exchanging"
    /\ exchanges' =
          [exchanges EXCEPT
              ![i].stage = "responded",
              ![i].status = IF outcome = "token" THEN 200
                            ELSE IF outcome = "unreachable" THEN 500 ELSE 502,
              ![i].code = IF outcome = "token" THEN "ok"
                          ELSE IF outcome = "unreachable"
                          THEN "token_exchange_unavailable"
                          ELSE "token_exchange_invalid_response"]
    /\ UNCHANGED <<minted, consumed, starts, token_calls, applications>>
    /\ UNCHANGED <<pc, args, ret>>
    /\ UNCHANGED storeVars
    /\ UNCHANGED callVars
    /\ UNCHANGED crmVars

NextExchange ==
    \/ \E session \in StartSessions :
          Start(session, Url("https", "example.com"), "S256")
    \/ \E session \in Sessions : \E state \in StateInputs :
          ExchangeArrives(session, state)
    \/ \E i \in 1..MaxExchanges + 1 : ExchangeValidate(i)
    \/ \E i \in 1..MaxExchanges + 1, outcome \in TokenOutcomes :
          TokenEndpointResponds(i, outcome)

SpecExchange == Init /\ [][NextExchange]_vars


\* the request carries a state this server signed for its user and team
ExchangeValid(e) ==
    e.state \in minted /\ e.state.user = e.user /\ e.state.team = e.team

\* the request passed the replay guard and called the token endpoint
Passed(i) == i \in Range(token_calls)

\* of the handled valid exchanges of each state exactly one passed the
\* replay guard and all others were refused with state_replay
SingleUse ==
    \A i \in 1..Len(exchanges) :
        LET e == exchanges[i]
        IN  /\ (ExchangeValid(e) /\ e.stage # "received") =>
                  (Passed(i) \/ (e.status = 400 /\ e.code = "state_replay"))
            /\ e.code = "state_replay" =>
                  /\ ExchangeValid(e)
                  /\ ~Passed(i)
                  /\ \E j \in 1..Len(exchanges) :
                        j # i /\ Passed(j) /\ exchanges[j].state = e.state
            /\ Passed(i) =>
                  /\ ExchangeValid(e)
                  /\ e.state.nonce \in consumed
                  /\ e.stage = "responded" => e.status \in {200, 500, 502}
            /\ e.status = 200 => Passed(i)

C23_AtMostOnePassesGuard ==
    /\ \A state \in minted :
          Cardinality({k \in 1..Len(token_calls) :
                          exchanges[token_calls[k]].state = state}) <= 1
    /\ \A i, j \in 1..Len(exchanges) :
          (/\ i # j
           /\ exchanges[i].state = exchanges[j].state
           /\ ExchangeValid(exchanges[i])
           /\ ExchangeValid(exchanges[j])
           /\ Passed(i)
           /\ exchanges[j].stage # "received") =>
              /\ ~Passed(j)
              /\ exchanges[j].code = "state_replay"

\* a request is refused while the request that arrived after it, for the
\* same state, is still waiting for the token endpoint
C23_Witness ==
    /\ Len(exchanges) = 2
    /\ exchanges[1].state = exchanges[2].state
    /\ exchanges[2].stage = "exchanging"
    /\ exchanges[1].stage = "responded"
    /\ exchanges[1].code = "state_replay"
    /\ token_calls = <<2>>

\* C24: an exchange whose state fails validation is answered 400 with the
\* code of a check it fails and never calls the token endpoint:
\* invalid_state for an altered state, state_user_mismatch for another
\* user's state, state_team_mismatch for a state of another team.
C24_InvalidStateIsRejected ==
    \A i \in 1..Len(exchanges) :
        LET e == exchanges[i]
            signed == e.state \in minted
            same_user == e.state.user = e.user
            same_team == e.state.team = e.team
        IN  /\ ~(signed /\ same_user /\ same_team) => ~Passed(i)
            /\ e.stage # "received" =>
                  /\ ~signed => e.status = 400 /\ e.code = "invalid_state"
                  /\ (signed /\ ~same_user /\ same_team) =>
                        e.status = 400 /\ e.code = "state_user_mismatch"
                  /\ (signed /\ same_user /\ ~same_team) =>
                        e.status = 400 /\ e.code = "state_team_mismatch"
                  /\ (signed /\ ~same_user /\ ~same_team) =>
                        /\ e.status = 400
                        /\ e.code \in {"state_user_mismatch",
                                       "state_team_mismatch"}

\* the user's state is sent after a change of team, and an altered state
C24_Witness ==
    /\ Len(exchanges) = 2
    /\ exchanges[1].state \in minted
    /\ exchanges[1].code = "state_team_mismatch"
    /\ exchanges[2].state \notin minted
    /\ exchanges[2].code = "invalid_state"
    /\ token_calls = <<>>


(***************************************************************************)
(* The OAuth client registration of the toolbar: one per organization,     *)
(* with one redirect URI per base URL the organization is served from.     *)
(***************************************************************************)

MaxAppCalls == 3

AppUsers == {"u1", "u2", "u3", "u4"}

\* user.organization
organization_of(user) ==
    CASE user = "u1" -> "o1"
      [] user = "u3" -> "o1"
      [] user = "u2" -> "o2"
      [] OTHER -> "o3"

BaseUrls == {"https://us.posthog.example", "https://eu.posthog.example",
             "http://localhost:8010"}

CALLBACK_PATH == "/toolbar_oauth/callback"

redirect_uri(base_url) == base_url \o CALLBACK_PATH

\* a registration for every base URL, whatever the organization has already
get_or_create_toolbar_oauth_application_per_base_url(apps, base_url, user) ==
    LET organization == organization_of(user)
        uri == redirect_uri(base_url)
        existing == {a \in apps : /\ a.organization = organization
                                  /\ uri \in Range(a.redirect_uris)}
        created == [id |-> Cardinality(apps) + 1,
                    organization |-> organization,
                    redirect_uris |-> <<uri>>]
    IN  IF existing # {}
        THEN [app |-> CHOOSE a \in existing : TRUE, applications |-> apps]
        ELSE [app |-> created, applications |-> apps \cup {created}]

\* the registration of the user's organization, created on first use, with
\* the redirect URI of base_url added when it is not yet listed
get_or_create_toolbar_oauth_application(apps, base_url, user) ==
    LET organization == organization_of(user)
        uri == redirect_uri(base_url)
        existing == {a \in apps : a.organization = organization}
        created == [id |-> Cardinality(apps) + 1,
                    organization |-> organization,
                    redirect_uris |-> <<uri>>]
    IN  IF existing = {}
        THEN [app |-> created, applications |-> apps \cup {created}]
        ELSE LET app == CHOOSE a \in existing : TRUE
                 updated == IF uri \in Range(app.redirect_uris)
                            THEN app
                            ELSE [app EXCEPT !.redirect_uris =
                                                Append(@, uri)]
             IN  [app |-> updated,
                  applications |-> (apps \ {app}) \cup {updated}]

InitOAuthApp ==
    /\ StoresEmpty
    /\ CallIdle
    /\ ServicesIdle
    /\ pc = "idle"
    /\ args = <<>>
    /\ ret = None

\* one call; args keeps the calls made so far, ret the registration returned
GetOrCreateApplication(base_url, user) ==
    /\ Len(args) < MaxAppCalls
    /\ LET got == get_or_create_toolbar_oauth_application(applications,
                                                          base_url, user)
       IN  /\ applications' = got.applications
           /\ ret' = got.app
    /\ args' = Append(args, [base_url |-> base_url, user |-> user])
    /\ pc' = "returned"
    /\ UNCHANGED storeVars
    /\ UNCHANGED callVars
    /\ UNCHANGED crmVars
    /\ UNCHANGED <<minted, consumed, starts, exchanges, token_calls>>

NextOAuthApp ==
    \E base_url \in BaseUrls, user \in AppUsers :
        GetOrCreateApplication(base_url, user)

SpecOAuthApp == InitOAuthApp /\ [][NextOAuthApp]_vars

\* C26: after any sequence of calls an organization has at most one
\* registration and different organizations have different ones; the call
\* returns the registration of the user's organization, which lists the
\* redirect URI of every base URL the organization has called with so far.
C26_OneApplicationPerOrganization ==
    /\ \A a, b \in applications :
          (a.organization = b.organization \/ a.id = b.id) => a = b
    /\ \A k \in 1..Len(args) :
          \E a \in applications :
              /\ a.organization = organization_of(args[k].user)
              /\ redirect_uri(args[k].base_url) \in Range(a.redirect_uris)
    /\ args # <<>> =>
          /\ ret \in applications
          /\ ret.organization = organization_of(args[Len(args)].user)
    /\ \A a \in applications :
          \A i, j \in 1..Len(a.redirect_uris) :
              a.redirect_uris[i] = a.redirect_uris[j] => i = j

\* two users of one organization call with two base URLs, a user of
\* another organization with the first one
C26_Witness ==
    /\ Len(args) = 3
    /\ args[1] = [base_url |-> "https://us.posthog.example", user |-> "u1"]
    /\ args[2] = [base_url |-> "https://eu.posthog.example", user |-> "u3"]
    /\ args[3] = [base_url |-> "https://us.posthog.example", user |-> "u2"]
    /\ Cardinality(applications) = 2
    /\ \E a \in applications :
          /\ a.organization = "o1"
          /\ a.redirect_uris =
                <<redirect_uri("https://us.posthog.example"),
                  redirect_uri("https://eu.posthog.example")>>


\* the signals of every team of team_ids, all zero for a team without a row
zero_filled_signals(by, team_ids) ==
    [i \in 1..Len(team_ids) |->
        IF team_ids[i] \in DOMAIN by THEN by[team_ids[i]]
        ELSE TeamUsageSignals(team_ids[i])]

ZeroFillChangesNothing(by, team_ids) ==
    aggregate_teams_to_org(present_signals(by, team_ids))
        = aggregate_teams_to_org(zero_filled_signals(by, team_ids))

\* C27: for each organization and each of the four periods, the aggregate of
\* the teams the event-store fetch returned equals the aggregate of all the
\* organization's teams with an all-zero record for each team not returned,
\* and the record's counts and ratio are those of that aggregate.
C27_AbsentTeamsCountAsZero ==
    (pc = "done" /\ all_team_ids # <<>>) =>
        \A o \in Range(org_ids) :
            LET team_ids == Get(org_to_teams, o, <<>>)
                agg_7d == aggregate_teams_to_org(
                              zero_filled_signals(p7.signals_by_team, team_ids))
                agg_30d == aggregate_teams_to_org(
                              zero_filled_signals(p30.signals_by_team, team_ids))
            IN  /\ ZeroFillChangesNothing(p7.signals_by_team, team_ids)
                /\ ZeroFillChangesNothing(p7.prev_signals_by_team, team_ids)
                /\ ZeroFillChangesNothing(p30.signals_by_team, team_ids)
                /\ ZeroFillChangesNothing(p30.prev_signals_by_team, team_ids)
                /\ result[o].active_users_7d = agg_7d.active_users
                /\ result[o].sessions_7d = agg_7d.sessions
                /\ result[o].events_per_session_7d = agg_7d.events_per_session
                /\ result[o].active_users_30d = agg_30d.active_users
                /\ result[o].sessions_30d = agg_30d.sessions
                /\ result[o].events_per_session_30d = agg_30d.events_per_session

\* an organization with two teams: one has a session in the last 7 days,
\* the other has no event at all
C27_Witness ==
    /\ pc = "done"
    /\ org_ids = <<"o1">>
    /\ org_to_teams["o1"] = <<1, 2>>
    /\ DOMAIN p7.signals_by_team = {1}
    /\ DOMAIN p30.signals_by_team = {1}
    /\ result["o1"].sessions_7d = 1
    /\ result["o1"].events_per_session_7d # None


\* the five fetches of one granularity, in the order of the claim
ExpectedPeriodFetches(begin, end, previous_begin, team_ids, ids) ==
    << [fn |-> "get_teams_with_usage_signals_in_period", ids |-> team_ids,
        begin |-> begin, end |-> end],
       [fn |-> "get_teams_with_usage_signals_in_period", ids |-> team_ids,
        begin |-> previous_begin, end |-> begin],
       [fn |-> "get_teams_with_recordings_in_period", ids |-> team_ids,
        begin |-> begin, end |-> end],
       [fn |-> "Dashboard", ids |-> ids, begin |-> begin, end |-> end],
       [fn |-> "Insight", ids |-> ids, begin |-> begin, end |-> end] >>

\* every fetch of a call that finds teams
ExpectedFetches ==
    << [fn |-> "get_team_ids_for_orgs", ids |-> org_ids] >>
    \o ExpectedPeriodFetches(now - 7, now, now - 14, all_team_ids, org_ids)
    \o ExpectedPeriodFetches(now - 30, now, now - 60, all_team_ids, org_ids)
    \o << [fn |-> "get_org_login_recency", ids |-> org_ids] >>

\* C28: a call whose flattened team list is not empty issues, after the team
\* lookup, for the 7-day and then the 30-day granularity the fetches signals
\* current, signals previous, recordings, dashboards, insights, and then the
\* login recency once; the event-store fetches get the whole flattened team
\* list, every window is computed from the one 'now', and the number of
\* fetches is the same for every list of organizations.
C28_FetchSequence ==
    (pc # "idle" /\ all_team_ids # <<>>) =>
        /\ Len(queries) <= Len(ExpectedFetches)
        /\ \A k \in 1..Len(queries) : SameQuery(queries[k], ExpectedFetches[k])
        /\ Len(queries) = CASE pc = "resolved" -> 1
                            [] pc = "fetched_p7" -> 6
                            [] pc = "fetched_p30" -> 11
                            [] OTHER -> 12
        /\ all_team_ids = flatten_team_ids(org_ids, org_to_teams)
        /\ Range(all_team_ids) =
              UNION {TeamsOfOrg(o) : o \in Range(org_ids)}

\* two organizations with one team each: twelve fetches, the event-store
\* ones for both teams at once
C28_Witness ==
    /\ pc = "done"
    /\ org_ids = <<"o1", "o2">>
    /\ all_team_ids = <<1, 2>>
    /\ org_to_teams["o1"] = <<1>>
    /\ Len(queries) = 12
    /\ queries[2].ids = <<1, 2>>
    /\ queries[9].ids = <<1, 2>>
    /\ queries[12].fn = "get_org_login_recency"


(***************************************************************************)
(* Two calls at the same time of day: between them the caller keeps the    *)
(* record of one organization and the application writes rows that belong  *)
(* to other organizations.                                                 *)
(***************************************************************************)

IsolationOrgIdLists == {<<"o1">>, <<"o1", "o2">>, <<"o2", "o1">>}

\* both calls read the same time from the clock
IsolationNowValues == {60}

\* events of the current and of the previous 7-day period
IsolationEventRows == {row \in EventRows : row.timestamp \in {47, 55}}

\* no call has been kept, or the row is not one of the kept organization
OfOtherOrg(organization_id) ==
    IF args = <<>> THEN TRUE ELSE organization_id # args[1].org

OfOtherTeam(team_id) ==
    IF args = <<>> THEN TRUE ELSE team_id \notin TeamsOfOrg(args[1].org)

InitIsolation ==
    /\ StoresEmpty
    /\ CallIdle
    /\ ServicesIdle
    /\ pc = "idle"
    /\ args = <<>>
    /\ ret = None

\* the caller keeps the record of an organization that has a team; the
\* function has returned and its locals are gone
KeepRecord(o) ==
    /\ pc = "done"
    /\ args = <<>>
    /\ o \in Range(org_ids)
    /\ Get(org_to_teams, o, <<>>) # <<>>
    /\ args' = <<[org |-> o, record |-> result[o], batch |-> org_ids,
                  now |-> now]>>
    /\ pc' = "idle"
    /\ org_ids' = <<>>
    /\ now' = 0
    /\ org_to_teams' = EmptyDict
    /\ all_team_ids' = <<>>
    /\ p7' = NoPeriodData
    /\ p30' = NoPeriodData
    /\ login_recency' = EmptyDict
    /\ result' = EmptyDict
    /\ queries' = <<>>
    /\ UNCHANGED <<raised, ret>>
    /\ UNCHANGED storeVars
    /\ UNCHANGED serviceVars

NextIsolation ==
    \/ \E row \in TeamRows :
          OfOtherOrg(row.organization_id) /\ CreateTeam(row)
    \/ \E row \in IsolationEventRows :
          OfOtherTeam(row.team_id) /\ InsertEvent(row)
    \/ \E row \in MembershipRows :
          OfOtherOrg(row.organization_id) /\ AddMembership(row)
    \/ \E ids \in IsolationOrgIdLists, t \in IsolationNowValues :
          /\ IF args = <<>> THEN TRUE
             ELSE args[1].org \in Range(ids) /\ t = args[1].now
          /\ Call(ids, t)
    \/ ShortCircuit
    \/ FetchP7
    \/ FetchP30
    \/ FetchLoginRecency(0)
    \/ BuildResult
    \/ \E o \in Orgs : KeepRecord(o)

SpecIsolation == InitIsolation /\ [][NextIsolation]_vars

FixedProductOrder == <<"feature_flags", "surveys", "error_tracking", "ai">>

\* the names are listed in the fixed order, each at most once
InFixedOrder(products) ==
    \E pos \in [1..Len(products) -> 1..Len(FixedProductOrder)] :
        /\ \A i \in 1..Len(products) : products[i] = FixedProductOrder[pos[i]]
        /\ \A i, j \in 1..Len(products) : i < j => pos[i] < pos[j]

\* C30: aggregate_teams_to_org returns the same record for every ordering
\* of its list, and products_activated lists the names in the order
\* feature_flags, surveys, error_tracking, ai.
C30_OrderOfTeamsIsIrrelevant ==
    pc = "returned" =>
        /\ \A reordered \in Orderings(args) :
              aggregate_teams_to_org(reordered) = ret
        /\ InFixedOrder(ret.products_activated)

\* the first team has ai only, the second feature_flags and surveys
C30_Witness ==
    /\ pc = "returned"
    /\ Len(args) = 2
    /\ args[1].has_ai /\ ~args[1].has_feature_flags /\ ~args[1].has_surveys
    /\ args[2].has_feature_flags /\ args[2].has_surveys /\ ~args[2].has_ai
    /\ args[1].session_count # args[2].session_count
    /\ ret.products_activated = <<"feature_flags", "surveys", "ai">>

====
